---- MODULE Spec2Model ----
(***************************************************************************)
(* Model of the CSR-Scanner detection pipeline:                            *)
(*   WebsiteRendererDetector.detect_rendering_type  (website_renderer.py)  *)
(*   RetryManager.execute_with_retry                (retry_manager.py)     *)
(*   ErrorHandler.categorize_error / should_retry   (error_handler.py)     *)
(*   PerformanceOptimizer browser pool              (performance_optimizer)*)
(* Several worker threads call detect_rendering_type on one detector, as   *)
(* run_analysis.process_websites does through its ThreadPoolExecutor.      *)
(***************************************************************************)
EXTENDS Integers, Sequences, FiniteSets, TLC

\* ------------------------------------------------------------------ bounds
MaxCalls == 1          \* detect_rendering_type calls each worker thread makes
MaxBrowsers == 2       \* rendering engines constructed in one run
MaxTicks == 1          \* clock advances in one run
MaxOverride == 1       \* largest max_retries override a caller passes
MaxAcquires == 52      \* get_optimized_browser calls that return an engine, in a pool run
MaxAttempts == 3       \* largest max_attempts of a retry policy

\* ------------------------------------------------------- program constants
DefaultMaxRetries == 2             \* WebsiteRendererDetector.__init__ max_retries
backoff_base == 1                  \* RetryConfig(backoff_base=1.0)
backoff_multiplier == 2            \* RetryConfig(backoff_multiplier=2.0)
browser_restart_threshold == 50    \* PerformanceOptimizer._browser_restart_threshold
browser_max_age == 3600            \* PerformanceOptimizer._browser_max_age
config_max_workers == 3            \* WebsiteRendererDetector.__init__ max_workers
MaxWorkersCap == 20                \* PerformanceOptimizer._max_workers cap

Workers == {"w1", "w2"}
\* The executor hands a submitted call to the first idle worker thread.
WorkerBefore(v, w) == v = "w1" /\ w = "w2"

None == "None"
NoOverride == 0
NoStatus == 0

\* ------------------------------------------------------------------- URLs
\* A URL is a sequence of tokens; the scheme, when present, is the first one.
Schemes == {"http://", "https://"}
Urls == { <<>>, <<"a.com">>, <<"http://", "a.com">> }

\* detect_rendering_type: "if not url or not isinstance(url, str)"
ValidUrl(u) == u # <<>>

\* detect_rendering_type: "if not url.startswith(('http://', 'https://'))"
NormaliseUrl(u) == IF Head(u) \in Schemes THEN u ELSE <<"http://">> \o u

NormUrls == { NormaliseUrl(u) : u \in { v \in Urls : ValidUrl(v) } }

\* ----------------------------------------------------------------- errors
\* An exception value: its class, the indicator lists its lower-cased message
\* matches (one mark per list of error_handler.py), and the status of the
\* response attached to it (NoStatus when it carries none).
Categories == {"TimeoutError", "HTTPError", "SSLError", "NetworkError",
               "BrowserError", "ParseError", "DNSError", "UnknownError"}

NoError == [type |-> None, marks |-> {}, response |-> NoStatus]

\* HTTP statuses the raw fetch can answer with (resp.status_code >= 400).
ErrorStatuses == {404, 999}

\* _detect_rendering_type_internal: requests.HTTPError(f"HTTP {status}: {reason}")
\* with http_error.response = resp.  The message matches the HTTP indicator
\* list through the pattern \b[4-5]\d{2}\b when the status is 4xx or 5xx.
HttpStatusError(s) ==
    [type |-> "HTTPError",
     marks |-> IF s >= 400 /\ s <= 599 THEN {"http"} ELSE {},
     response |-> s]

\* Exceptions requests.get raises.
DnsFailure == [type |-> "ConnectionError", marks |-> {"dns"}, response |-> NoStatus]
SslFailure == [type |-> "SSLError", marks |-> {"ssl"}, response |-> NoStatus]
ReadTimeout == [type |-> "ReadTimeout", marks |-> {"timeout"}, response |-> NoStatus]
ConnectionRefused == [type |-> "ConnectionError", marks |-> {"network"}, response |-> NoStatus]
InvalidUrlError == [type |-> "InvalidURL", marks |-> {}, response |-> NoStatus]
FetchErrors == {DnsFailure} \cup { HttpStatusError(s) : s \in ErrorStatuses }

\* _create_optimized_browser: "except Exception as e: raise RuntimeError(
\* f'Failed to create optimized browser: {str(e)}')".  The message matches the
\* browser indicators by its own words and whatever indicators the message
\* of the cause e matches.
BrowserCreateErrorFrom(cause) ==
    [type |-> "RuntimeError", marks |-> {"browser"} \cup cause, response |-> NoStatus]
BrowserCreateError == BrowserCreateErrorFrom({})
\* What the message of the cause matches: nothing more for a session that
\* could not be created, the DNS indicators when chromedriver_autoinstaller
\* .install() or uc.Chrome cannot resolve the host it downloads the driver
\* from ("Temporary failure in name resolution").
CreateCauses == { {}, {"dns"} }
\* driver.get on a live engine: selenium TimeoutException
RenderTimeout == [type |-> "TimeoutException", marks |-> {"timeout"}, response |-> NoStatus]
\* driver calls on an engine that was quit or has died
InvalidSession == [type |-> "InvalidSessionIdException", marks |-> {"browser"}, response |-> NoStatus]
\* RetryManager.execute_with_retry, line 177
UnexpectedRetryError == [type |-> "RuntimeError", marks |-> {}, response |-> NoStatus]

\* Class tests of error_handler.py (isinstance, with the libraries' hierarchy:
\* every requests exception is an OSError, selenium's TimeoutException is a
\* WebDriverException, requests' InvalidURL is a ValueError).
DnsClasses == {"gaierror"}
SslClasses == {"SSLError"}
TimeoutClasses == {"ReadTimeout", "TimeoutException"}
BrowserClasses == {"WebDriverException", "TimeoutException", "InvalidSessionIdException"}
HttpClasses == {"HTTPError"}
ParseClasses == {"InvalidURL", "ValueError"}
NetworkClasses == {"ConnectionError", "SSLError", "ReadTimeout", "HTTPError", "InvalidURL", "gaierror"}

_is_dns_error(e) == e.type \in DnsClasses \/ "dns" \in e.marks
_is_ssl_error(e) == e.type \in SslClasses \/ "ssl" \in e.marks
_is_timeout_error(e) == e.type \in TimeoutClasses \/ "timeout" \in e.marks
_is_browser_error(e) == e.type \in BrowserClasses \/ "browser" \in e.marks
_is_http_error(e) == e.type \in HttpClasses \/ "http" \in e.marks
_is_parse_error(e) == e.type \in ParseClasses \/ "parse" \in e.marks
_is_network_error(e) == e.type \in NetworkClasses \/ "network" \in e.marks

\* A classifier that tests the general network rule first.
categorize_error_network_first(e) ==
    IF _is_network_error(e) THEN "NetworkError"
    ELSE IF _is_dns_error(e) THEN "DNSError"
    ELSE IF _is_ssl_error(e) THEN "SSLError"
    ELSE IF _is_timeout_error(e) THEN "TimeoutError"
    ELSE IF _is_browser_error(e) THEN "BrowserError"
    ELSE IF _is_http_error(e) THEN "HTTPError"
    ELSE IF _is_parse_error(e) THEN "ParseError"
    ELSE "UnknownError"

\* A classifier that answers with the class of the exception.
categorize_error_raw_type(e) == e.type

\* ErrorHandler.categorize_error: first matching rule wins.
categorize_error(e) ==
    IF _is_dns_error(e) THEN "DNSError"
    ELSE IF _is_ssl_error(e) THEN "SSLError"
    ELSE IF _is_timeout_error(e) THEN "TimeoutError"
    ELSE IF _is_browser_error(e) THEN "BrowserError"
    ELSE IF _is_http_error(e) THEN "HTTPError"
    ELSE IF _is_parse_error(e) THEN "ParseError"
    ELSE IF _is_network_error(e) THEN "NetworkError"
    ELSE "UnknownError"

\* ErrorHandler.should_retry
ErrorHandler_should_retry(category) ==
    category \notin {"DNSError", "SSLError", "ParseError"}

\* ErrorHandler.is_retryable_http_status
is_retryable_http_status(status_code) ==
    IF status_code >= 500 /\ status_code < 600 THEN TRUE
    ELSE IF status_code = 429 THEN TRUE
    ELSE IF status_code = 408 THEN TRUE
    ELSE FALSE

\* requests.Response.__bool__ is Response.ok: false exactly for 4xx and 5xx.
ResponseTruthy(s) == s # NoStatus /\ ~(s >= 400 /\ s < 600)

\* ErrorHandler.get_error_details: the "http_status_code" entry, NoStatus
\* when the entry is not set ("hasattr(exception, 'response') and
\* exception.response").
get_error_details(e) ==
    IF ResponseTruthy(e.response) THEN e.response ELSE NoStatus

\* RetryConfig of the detector (website_renderer.py, __init__ and the override)
non_retryable_errors == {"DNSError", "SSLError"}

RECURSIVE Pow(_, _)
Pow(b, n) == IF n <= 0 THEN 1 ELSE b * Pow(b, n - 1)

\* RetryConfig.get_backoff_delay
RetryConfig_get_backoff_delay(attempt) ==
    backoff_base * Pow(backoff_multiplier, attempt - 1)

\* A backoff that never waits.
get_backoff_delay_none(attempt) == 0

\* RetryManager.get_backoff_delay
get_backoff_delay(attempt) ==
    IF attempt <= 0 THEN 0 ELSE RetryConfig_get_backoff_delay(attempt)

\* Delays are rationals [n, d] with d > 0: the base in seconds times powers of
\* a multiplier that need not be whole (1.5 is 3/2).
Rational(n, d) == [n |-> n, d |-> d]
RationalLE(x, y) == x.n * y.d <= y.n * x.d
RationalEq(x, y) == x.n * y.d = y.n * x.d

\* A delay whose exponent is the attempt number itself.
RetryManager_get_backoff_delay_late(base, multiplier, attempt) ==
    IF attempt <= 0 THEN Rational(0, 1)
    ELSE Rational(base * Pow(multiplier.n, attempt), Pow(multiplier.d, attempt))

\* RetryManager.get_backoff_delay over RetryConfig.get_backoff_delay, for a
\* RetryConfig with the given backoff_base and backoff_multiplier
RetryManager_get_backoff_delay(base, multiplier, attempt) ==
    IF attempt <= 0 THEN Rational(0, 1)
    ELSE Rational(base * Pow(multiplier.n, attempt - 1), Pow(multiplier.d, attempt - 1))

\* A retry decision that looks at the attempt budget only.
should_retry_budget_only(max_attempts, error_category, attempt) ==
    attempt < max_attempts

\* A retry decision that treats a DNS failure as transient.
should_retry_dns_transient(max_attempts, error_category, attempt) ==
    attempt < max_attempts /\ error_category \notin {"SSLError", "ParseError"}

\* A retry decision that leaves the policy's list out.
RetryManager_should_retry_hard_coded_only(config, error_category, attempt) ==
    attempt < config.max_attempts /\ ErrorHandler_should_retry(error_category)

\* RetryManager.should_retry under the RetryConfig config
RetryManager_should_retry(config, error_category, attempt) ==
    IF attempt >= config.max_attempts THEN FALSE
    ELSE IF error_category \in config.non_retryable_errors THEN FALSE
    ELSE ErrorHandler_should_retry(error_category)

\* RetryManager.should_retry under the detector's RetryConfig
should_retry(max_attempts, error_category, attempt) ==
    RetryManager_should_retry(
        [max_attempts |-> max_attempts, non_retryable_errors |-> non_retryable_errors],
        error_category, attempt)

\* execute_with_retry, lines 138-170: what follows a failed attempt, "retry"
\* for another iteration of the loop and "raise" for leaving it.
AfterFailure(config, error_category, attempt) ==
    IF ~RetryManager_should_retry(config, error_category, attempt) THEN "raise"
    ELSE IF attempt >= config.max_attempts THEN "raise"
    ELSE "retry"


\* ------------------------------------------------------------------ state
VARIABLES
    threads,                \* the worker threads of the executor
    pc,                     \* position of each worker thread in detect_rendering_type
    call,                   \* the local variables of each worker's current call
    nCalls,                 \* detect_rendering_type calls each worker has started
    retry_manager,          \* detector.retry_manager: config.max_attempts, retry_histories
    histories,              \* the RetryHistory objects, one per execute_with_retry call
    browser_pool,           \* PerformanceOptimizer._browser_pool
    browser_usage_count,    \* PerformanceOptimizer._browser_usage_count
    browser_creation_time,  \* PerformanceOptimizer._browser_creation_time
    engines,                \* the rendering-engine processes: live, dead or quit
    nBrowsers,              \* engines constructed so far
    handed,                 \* how often get_optimized_browser has returned each engine
    now,                    \* time.time(), in seconds
    ticks,                  \* clock advances so far
    returned,               \* how many results each call has returned
    probe,                  \* a function of the program applied on its own: input and output
    batch,                  \* process_websites: its position, executor, buffer and output
    performance_metrics,    \* detector.performance_metrics: the three request counters
    updating,               \* each thread's position in _update_performance_metrics
    browser_lock,           \* PerformanceOptimizer._browser_lock: its holder
    locking                 \* each thread's position in a method that takes _browser_lock

vars == <<threads, pc, call, nCalls, retry_manager, histories, browser_pool,
          browser_usage_count, browser_creation_time, engines, nBrowsers, handed,
          now, ticks, returned, probe, batch, performance_metrics, updating,
          browser_lock, locking>>

perfVars == <<performance_metrics, updating>>
lockVars == <<browser_lock, locking>>

poolVars == <<browser_pool, browser_usage_count, browser_creation_time, engines, nBrowsers,
              handed>>

CallIds == 1..(MaxCalls * Cardinality(Workers))
BrowserIds == 1..MaxBrowsers
CallsStarted == nCalls["w1"] + nCalls["w2"]
Absent == -1                   \* a key missing from a tracking dictionary
NoHistory == 0                 \* retry_histories.get(url) is None
NoBrowser == 0

\* What a rendered page yields: the frameworks found and the verdict.
Pages == { [frameworks |-> <<>>, rendering_type |-> "Server-Side Rendered"],
           [frameworks |-> <<"React">>, rendering_type |-> "Client-Side Rendered"] }

\* The locals of a call.  max_attempts is config.max_attempts of the retry
\* manager the call runs in; invocations and last_op_error record what the
\* operation did (how often it was invoked, what its last invocation raised).
IdleCall ==
    [id |-> 0, original_url |-> <<>>, url |-> <<>>, override |-> NoOverride,
     max_attempts |-> 0, attempt |-> 0, driver |-> NoBrowser,
     last_exception |-> NoError, exc |-> NoError, result |-> <<>>,
     invocations |-> 0, last_op_error |-> NoError, slept |-> <<>>]

\* RetryHistory(url=url, total_attempts=0, success=False)
NewHistory(url) ==
    [url |-> url, total_attempts |-> 0, success |-> FALSE, final_error |-> <<>>,
     attempts |-> <<>>]

\* RetryManager(retry_config, error_handler): an empty retry_histories map
NewManager(max_attempts) ==
    [max_attempts |-> max_attempts, retry_histories |-> [u \in NormUrls |-> NoHistory]]

\* No function is applied on its own while the pipeline runs.
NoProbe == [op |-> "none", input |-> <<>>, output |-> <<>>]

\* No batch run is under way.
NoBatch == [pc |-> "none"]

\* A thread outside _update_performance_metrics; calls counts the detect
\* calls of the thread that have returned past the input validation.
NotUpdating == [pc |-> "idle", success |-> FALSE, loaded |-> 0, calls |-> 0]

\* threading.Lock() as constructed: held by no thread
Unlocked == "unlocked"
\* A thread outside the methods that take _browser_lock; calls counts the
\* calls of those methods the thread has completed, outcome is how the last
\* one ended.
NotLocking == [pc |-> "idle", op |-> "none", outcome |-> "none", calls |-> 0]

\* The detector after construction, with the worker threads ts.
InitDetectorWith(ts, max_retries) ==
    /\ threads = ts
    /\ pc = [w \in Workers |-> "idle"]
    /\ call = [w \in Workers |-> IdleCall]
    /\ nCalls = [w \in Workers |-> 0]
    /\ retry_manager = NewManager(max_retries)
    /\ histories = [c \in CallIds |-> NewHistory(<<>>)]
    /\ browser_pool = <<>>
    /\ browser_usage_count = [b \in BrowserIds |-> Absent]
    /\ browser_creation_time = [b \in BrowserIds |-> Absent]
    /\ engines = [b \in BrowserIds |-> "none"]
    /\ nBrowsers = 0
    /\ handed = [b \in BrowserIds |-> 0]
    /\ now = 0
    /\ ticks = 0
    /\ returned = [c \in CallIds |-> 0]
    /\ performance_metrics = [total_requests |-> 0, successful_requests |-> 0,
                              failed_requests |-> 0]
    /\ updating = [w \in Workers |-> NotUpdating]
    /\ browser_lock = Unlocked
    /\ locking = [w \in Workers |-> NotLocking]

\* The detector constructed with the default max_retries.
InitDetector(ts) == InitDetectorWith(ts, DefaultMaxRetries)

\* The state after construction, with the worker threads ts and the probe p.
InitState(ts, p) ==
    /\ InitDetector(ts)
    /\ probe = p
    /\ batch = NoBatch

InitWith(ts) == InitState(ts, NoProbe)

\* The detector as process_websites uses it: shared by the executor's threads.
Init == InitWith(Workers)

\* The detector called from one thread only.
InitSeq == InitWith({"w1"})

Max(a, b) == IF a >= b THEN a ELSE b
Min(a, b) == IF a <= b THEN a ELSE b

\* A call is in flight from its start until it returns or raises.
InFlight(p) == p \notin {"idle", "done", "raised"}

\* The RetryHistory objects still referenced: those of the calls in flight
\* and those a key of the retry manager's map points to.  The others are
\* garbage and are dropped from the state.
Collect(hs, manager, pcs, calls) ==
    [c \in CallIds |->
        IF \/ \E w \in Workers : InFlight(pcs[w]) /\ calls[w].id = c
           \/ \E u \in NormUrls : manager.retry_histories[u] = c
        THEN hs[c] ELSE NewHistory(<<>>)]

\* ------------------------------------------------------------ the results
\* detect_rendering_type, lines 669-682: the result for an invalid URL
InvalidUrlResult(original_url) ==
    [url |-> original_url, final_url |-> original_url,
     rendering_type |-> "Not Accessible", status |-> "Failed",
     frameworks |-> <<>>, error_category |-> "ParseError", retry_count |-> 0,
     http_status_code |-> NoStatus]

\* _detect_rendering_type_internal, lines 826-839: the result of a successful attempt
SuccessResult(c, page) ==
    [url |-> c.url, final_url |-> c.url,
     rendering_type |-> page.rendering_type, status |-> "Success",
     frameworks |-> page.frameworks, error_category |-> None, retry_count |-> 0,
     http_status_code |-> 200]

\* A failure result that carries no category.
FailedResult_uncategorised(c, e, retry_count) ==
    [url |-> c.original_url, final_url |-> c.url,
     rendering_type |-> "Not Accessible", status |-> "Failed",
     frameworks |-> <<>>, error_category |-> None,
     retry_count |-> retry_count,
     http_status_code |-> get_error_details(e)]

\* detect_rendering_type, lines 720-744: the result after the final failure
FailedResult(c, e, retry_count) ==
    [url |-> c.original_url, final_url |-> c.url,
     rendering_type |-> "Not Accessible", status |-> "Failed",
     frameworks |-> <<>>, error_category |-> categorize_error(e),
     retry_count |-> retry_count,
     http_status_code |-> get_error_details(e)]

\* A retry count that counts the first attempt as a retry.
RetryCountOf_total(url) ==
    LET h == retry_manager.retry_histories[url]
    IN IF h # NoHistory THEN histories[h].total_attempts ELSE 0

\* detect_rendering_type, lines 706-707 and 729-730:
\* retry_count = max(0, retry_history.total_attempts - 1) if retry_history else 0,
\* read from the retry manager the detector holds at that moment.
RetryCountOf(url) ==
    LET h == retry_manager.retry_histories[url]
    IN IF h # NoHistory THEN Max(0, histories[h].total_attempts - 1) ELSE 0

\* --------------------------------------------------------- the browser pool
\* The pool and its tracking maps as one value, for the operators below.
PoolState ==
    [pool |-> browser_pool, usage |-> browser_usage_count,
     ctime |-> browser_creation_time, engines |-> engines]

RemoveFromSeq(s, x) == SelectSeq(s, LAMBDA y : y # x)

\* A removal that forgets the usage-count key of the browser it drops.
_remove_browser_from_pool_keep_usage(P, b) ==
    [pool |-> RemoveFromSeq(P.pool, b),
     usage |-> P.usage,
     ctime |-> [P.ctime EXCEPT ![b] = Absent],
     engines |-> [P.engines EXCEPT ![b] = "quit"]]

\* PerformanceOptimizer._remove_browser_from_pool: drop the browser from the
\* pool and both maps, then browser.quit() (a failure of quit is swallowed).
_remove_browser_from_pool(P, b) ==
    [pool |-> RemoveFromSeq(P.pool, b),
     usage |-> [P.usage EXCEPT ![b] = Absent],
     ctime |-> [P.ctime EXCEPT ![b] = Absent],
     engines |-> [P.engines EXCEPT ![b] = "quit"]]

\* _browser_usage_count.get(browser_id, 0)
UsageOf(P, b) == IF P.usage[b] = Absent THEN 0 ELSE P.usage[b]
\* current_time - _browser_creation_time.get(browser_id, current_time)
AgeOf(P, b, t) == IF P.ctime[b] = Absent THEN 0 ELSE t - P.ctime[b]

\* A wear test that looks at the usage count only.
Worn_usage_only(P, b, t) == UsageOf(P, b) >= browser_restart_threshold

\* "usage_count >= self._browser_restart_threshold or age >= self._browser_max_age"
Worn(P, b, t) ==
    UsageOf(P, b) >= browser_restart_threshold \/ AgeOf(P, b, t) >= browser_max_age

\* A scan that passes over a dead or worn browser and leaves it pooled.
RECURSIVE _get_reusable_browser_skip(_, _, _)
_get_reusable_browser_skip(copy, P, t) ==
    IF copy = <<>> THEN [P |-> P, browser |-> NoBrowser]
    ELSE LET b == Head(copy) IN
         IF P.engines[b] # "live" \/ Worn(P, b, t)
         THEN _get_reusable_browser_skip(Tail(copy), P, t)
         ELSE [P |-> [P EXCEPT !.usage[b] = UsageOf(P, b) + 1], browser |-> b]

\* PerformanceOptimizer._get_reusable_browser: scan a copy of the pool; a
\* browser that fails the probe (browser.current_url) or is worn is removed,
\* the first other one is returned with its usage count incremented.
RECURSIVE _get_reusable_browser(_, _, _)
_get_reusable_browser(copy, P, t) ==
    IF copy = <<>> THEN [P |-> P, browser |-> NoBrowser]
    ELSE LET b == Head(copy) IN
         IF P.engines[b] # "live"
         THEN _get_reusable_browser(Tail(copy), _remove_browser_from_pool(P, b), t)
         ELSE IF Worn(P, b, t)
         THEN _get_reusable_browser(Tail(copy), _remove_browser_from_pool(P, b), t)
         ELSE [P |-> [P EXCEPT !.usage[b] = UsageOf(P, b) + 1], browser |-> b]

\* PerformanceOptimizer.get_optimized_browser, lines 86-90: register a new browser
RegisterBrowser(P, b, t) ==
    [pool |-> Append(P.pool, b),
     usage |-> [P.usage EXCEPT ![b] = 0],
     ctime |-> [P.ctime EXCEPT ![b] = t],
     engines |-> [P.engines EXCEPT ![b] = "live"]]

RECURSIVE RemoveAll(_, _)
RemoveAll(P, bs) ==
    IF bs = {} THEN P
    ELSE LET b == CHOOSE x \in bs : TRUE
         IN RemoveAll(_remove_browser_from_pool(P, b), bs \ {b})

SeqToSet(s) == { s[i] : i \in 1..Len(s) }

\* PerformanceOptimizer.__init__: self._max_workers = min(config.max_workers, 20)
_max_workers == Min(config_max_workers, MaxWorkersCap)

\* sorted(self._browser_pool, key=creation time)[:n], as a set: the n oldest
\* browsers, ties kept in pool order (sorted is stable).
OlderThan(P, t, i, j) ==
    LET ci == IF P.ctime[P.pool[i]] = Absent THEN t ELSE P.ctime[P.pool[i]]
        cj == IF P.ctime[P.pool[j]] = Absent THEN t ELSE P.ctime[P.pool[j]]
    IN ci < cj \/ (ci = cj /\ i < j)
Oldest(P, t, n) ==
    { P.pool[j] : j \in { k \in 1..Len(P.pool) :
          Cardinality({ i \in 1..Len(P.pool) : OlderThan(P, t, i, k) }) < n } }

\* PerformanceOptimizer._cleanup_old_browsers
_cleanup_old_browsers(P, t) ==
    LET marked == { b \in SeqToSet(P.pool) :
                      Worn(P, b, t) \/ Len(P.pool) > _max_workers }
        excess == IF Len(P.pool) > _max_workers
                  THEN Oldest(P, t, Len(P.pool) - _max_workers)
                  ELSE {}
    IN RemoveAll(P, marked \cup excess)

\* A restart pass that leaves the pool as it found it.
restart_browser_if_needed_keep(P, t, memory_high) == P

\* PerformanceOptimizer.restart_browser_if_needed, with the outcome of
\* "current_memory > self._max_memory_threshold" as an input.
restart_browser_if_needed(P, t, memory_high) ==
    LET P1 == IF memory_high THEN _cleanup_old_browsers(P, t) ELSE P
        browsers_to_restart == { b \in SeqToSet(P1.pool) : Worn(P1, b, t) }
    IN RemoveAll(P1, browsers_to_restart)

\* A cleanup that quits only the engines that still answer.
cleanup_resources_live_only(P) ==
    LET P1 == RemoveAll(P, { b \in SeqToSet(P.pool) : P.engines[b] = "live" })
    IN [P1 EXCEPT !.pool = <<>>,
                  !.usage = [b \in BrowserIds |-> Absent],
                  !.ctime = [b \in BrowserIds |-> Absent]]

\* PerformanceOptimizer.cleanup_resources
cleanup_resources(P) ==
    LET P1 == RemoveAll(P, SeqToSet(P.pool))
    IN [P1 EXCEPT !.pool = <<>>,
                  !.usage = [b \in BrowserIds |-> Absent],
                  !.ctime = [b \in BrowserIds |-> Absent]]

SetPool(P) ==
    /\ browser_pool' = P.pool
    /\ browser_usage_count' = P.usage
    /\ browser_creation_time' = P.ctime
    /\ engines' = P.engines




\* ------------------------------------------------------ execute_with_retry
\* RetryAttempt(attempt_number, timestamp, error_category, error_message, delay)
RetryAttempt(attempt, category, delay) ==
    [attempt_number |-> attempt, error_category |-> category,
     delay_before_attempt |-> delay]

\* A loop exit that raises a summary error instead of the last exception.
RaiseAfterLoop_summary(last_exception) == UnexpectedRetryError

\* execute_with_retry, lines 172-177: what the call raises once the loop is left
RaiseAfterLoop(last_exception) ==
    IF last_exception # NoError THEN last_exception ELSE UnexpectedRetryError

\* execute_with_retry, lines 114-170: the except branch of one attempt.
\* c is the call's local state, h its RetryHistory, e the exception caught.
\* Gives the new local state and history, and where the call goes next:
\* "fetch" for another attempt (after time.sleep(delay)), "except" when the
\* loop is left and the exception is raised to detect_rendering_type.
OnAttemptFailure(c, h, e) ==
    LET error_category == categorize_error(e)
        failed == [c EXCEPT !.last_exception = e, !.driver = NoBrowser]
        terminal ==
            [call |-> [failed EXCEPT !.exc = RaiseAfterLoop(e)],
             hist |-> [h EXCEPT
                         !.attempts = Append(@, RetryAttempt(c.attempt, error_category, 0)),
                         !.final_error = <<error_category, e>>],
             pc |-> "except"]
    IN IF ~should_retry(c.max_attempts, error_category, c.attempt) THEN terminal
       ELSE IF c.attempt >= c.max_attempts THEN terminal
       ELSE LET delay == get_backoff_delay(c.attempt) IN
            [call |-> [failed EXCEPT
                         !.attempt = @ + 1,
                         !.slept = IF delay > 0 THEN Append(@, delay) ELSE @],
             hist |-> [h EXCEPT
                         !.attempts = Append(@, RetryAttempt(c.attempt, error_category, delay))],
             pc |-> "fetch"]

\* The operation is invoked once more; e is what the raw fetch at its start
\* raises (NoError when the fetch answers with a page).
Invoked(c, e) == [c EXCEPT !.invocations = @ + 1, !.last_op_error = e]

\* The invocation of worker w that is under way raises e after its fetch.
FailAttempt(w, e) ==
    LET c == [call[w] EXCEPT !.last_op_error = e]
        r == OnAttemptFailure(c, histories[c.id], e)
    IN /\ call' = [call EXCEPT ![w] = r.call]
       /\ histories' = [histories EXCEPT ![c.id] = r.hist]
       /\ pc' = [pc EXCEPT ![w] = r.pc]

\* ------------------------------------------------------------- the actions
\* detect_rendering_type, lines 665-699: input validation, URL normalisation
\* and the replacement of the retry manager when max_retries is given.
Detect(w, u, o) ==
    /\ w \in threads
    /\ ~InFlight(pc[w])
    /\ \A v \in threads : WorkerBefore(v, w) => InFlight(pc[v])
    /\ nCalls[w] < MaxCalls
    /\ nCalls' = [nCalls EXCEPT ![w] = @ + 1]
    /\ LET id == CallsStarted + 1
           c == [IdleCall EXCEPT !.id = id, !.original_url = u, !.override = o]
       IN
       IF ~ValidUrl(u)
       THEN /\ call' = [call EXCEPT ![w] = [c EXCEPT !.result = <<InvalidUrlResult(u)>>]]
            /\ pc' = [pc EXCEPT ![w] = "done"]
            /\ returned' = [returned EXCEPT ![id] = @ + 1]
            /\ UNCHANGED retry_manager
            /\ histories' = Collect(histories, retry_manager, pc', call')
       ELSE /\ call' = [call EXCEPT ![w] = [c EXCEPT !.url = NormaliseUrl(u)]]
            /\ UNCHANGED returned
            /\ IF o # NoOverride /\ o # retry_manager.max_attempts
               THEN /\ retry_manager' = NewManager(o)
                    /\ pc' = [pc EXCEPT ![w] = "override_check"]
               ELSE /\ UNCHANGED retry_manager
                    /\ pc' = [pc EXCEPT ![w] = "execute"]
            /\ histories' = Collect(histories, retry_manager', pc', call')
    /\ UNCHANGED <<threads, probe, batch, perfVars, lockVars, poolVars, now, ticks>>

\* detect_rendering_type, lines 698-699:
\*     if url in self.retry_manager.retry_histories:
\*         del self.retry_manager.retry_histories[url]
\* two reads of self.retry_manager; the del raises KeyError when the manager
\* read second does not hold the key.
OverrideClear(w) ==
    /\ pc[w] \in {"override_check", "override_del"}
    /\ LET present == retry_manager.retry_histories[call[w].url] # NoHistory IN
       IF pc[w] = "override_check"
       THEN /\ pc' = [pc EXCEPT ![w] = IF present THEN "override_del" ELSE "execute"]
            /\ UNCHANGED <<retry_manager, histories>>
       ELSE IF present
       THEN /\ retry_manager' = [retry_manager EXCEPT
                                   !.retry_histories[call[w].url] = NoHistory]
            /\ pc' = [pc EXCEPT ![w] = "execute"]
            /\ histories' = Collect(histories, retry_manager', pc', call)
       ELSE /\ pc' = [pc EXCEPT ![w] = "raised"]
            /\ UNCHANGED <<retry_manager, histories>>
    /\ UNCHANGED <<threads, probe, batch, perfVars, lockVars, call, nCalls, poolVars, now, ticks, returned>>

\* detect_rendering_type, line 703, and execute_with_retry, lines 91-100: the
\* call runs in the retry manager the detector holds now, stores a new
\* RetryHistory under the URL and enters the loop.
ExecuteStart(w) ==
    /\ pc[w] = "execute"
    /\ LET id == call[w].id
           max_attempts == retry_manager.max_attempts
       IN /\ retry_manager' = [retry_manager EXCEPT !.retry_histories[call[w].url] = id]
          /\ IF max_attempts >= 1
             THEN /\ call' = [call EXCEPT ![w].max_attempts = max_attempts,
                                          ![w].attempt = 1]
                  /\ pc' = [pc EXCEPT ![w] = "fetch"]
             ELSE /\ call' = [call EXCEPT ![w].max_attempts = max_attempts,
                                          ![w].exc = RaiseAfterLoop(NoError)]
                  /\ pc' = [pc EXCEPT ![w] = "except"]
          /\ histories' = Collect([histories EXCEPT ![id] = NewHistory(call[w].url)],
                                  retry_manager', pc', call')
    /\ UNCHANGED <<threads, probe, batch, perfVars, lockVars, nCalls, poolVars, now, ticks, returned>>

\* execute_with_retry, line 101, and _detect_rendering_type_internal, lines
\* 785-798: the raw fetch answers with a page ...
FetchOk(w) ==
    /\ pc[w] = "fetch"
    /\ histories' = [histories EXCEPT ![call[w].id].total_attempts = call[w].attempt]
    /\ call' = [call EXCEPT ![w] = Invoked(call[w], NoError)]
    /\ pc' = [pc EXCEPT ![w] = "acquire"]
    /\ UNCHANGED <<threads, probe, batch, perfVars, lockVars, nCalls, retry_manager, poolVars, now, ticks, returned>>

\* ... or raises, or answers with a status >= 400, raised as an HTTPError.
FetchFail(w, e) ==
    /\ pc[w] = "fetch"
    /\ LET c == Invoked(call[w], e)
           h == [histories[c.id] EXCEPT !.total_attempts = c.attempt]
           r == OnAttemptFailure(c, h, e)
       IN /\ call' = [call EXCEPT ![w] = r.call]
          /\ histories' = [histories EXCEPT ![c.id] = r.hist]
          /\ pc' = [pc EXCEPT ![w] = r.pc]
    /\ UNCHANGED <<threads, probe, batch, perfVars, lockVars, nCalls, retry_manager, poolVars, now, ticks, returned>>

\* get_webdriver -> PerformanceOptimizer.get_optimized_browser, under
\* _browser_lock: reuse a pooled browser ...
AcquireReuse(w) ==
    /\ pc[w] = "acquire"
    /\ LET r == _get_reusable_browser(browser_pool, PoolState, now) IN
       /\ r.browser # NoBrowser
       /\ SetPool(r.P)
       /\ handed' = [handed EXCEPT ![r.browser] = @ + 1]
       /\ call' = [call EXCEPT ![w].driver = r.browser]
    /\ pc' = [pc EXCEPT ![w] = "render"]
    /\ UNCHANGED <<threads, probe, batch, perfVars, lockVars, nCalls, retry_manager, histories, nBrowsers, now, ticks, returned>>

\* ... or construct one and add it to the pool ...
AcquireCreate(w) ==
    /\ pc[w] = "acquire"
    /\ nBrowsers < MaxBrowsers
    /\ LET r == _get_reusable_browser(browser_pool, PoolState, now)
           b == nBrowsers + 1
       IN /\ r.browser = NoBrowser
          /\ SetPool(RegisterBrowser(r.P, b, now))
          /\ nBrowsers' = b
          /\ handed' = [handed EXCEPT ![b] = @ + 1]
          /\ call' = [call EXCEPT ![w].driver = b]
    /\ pc' = [pc EXCEPT ![w] = "render"]
    /\ UNCHANGED <<threads, probe, batch, perfVars, lockVars, nCalls, retry_manager, histories, now, ticks, returned>>

\* ... or _create_optimized_browser raises: the pool keeps what the scan left.
AcquireFail(w) ==
    /\ pc[w] = "acquire"
    /\ LET r == _get_reusable_browser(browser_pool, PoolState, now) IN
       /\ r.browser = NoBrowser
       /\ SetPool(r.P)
    /\ \E cause \in CreateCauses : FailAttempt(w, BrowserCreateErrorFrom(cause))
    /\ UNCHANGED <<threads, probe, batch, perfVars, lockVars, nCalls, retry_manager, nBrowsers, handed, now, ticks, returned>>

\* _detect_rendering_type_internal, lines 802-839: render on the borrowed
\* browser, detect frameworks, classify, build the result.
RenderOk(w, page) ==
    /\ pc[w] = "render"
    /\ engines[call[w].driver] = "live"
    /\ call' = [call EXCEPT ![w].result = <<SuccessResult(call[w], page)>>,
                            ![w].driver = NoBrowser]
    /\ histories' = [histories EXCEPT ![call[w].id].success = TRUE]
    /\ pc' = [pc EXCEPT ![w] = "post"]
    /\ UNCHANGED <<threads, probe, batch, perfVars, lockVars, nCalls, retry_manager, poolVars, now, ticks, returned>>

\* The render raises: a timeout on a live engine, an invalid session on an
\* engine that has died or was quit.
RenderFail(w) ==
    /\ pc[w] = "render"
    /\ FailAttempt(w, IF engines[call[w].driver] = "live"
                      THEN RenderTimeout ELSE InvalidSession)
    /\ UNCHANGED <<threads, probe, batch, perfVars, lockVars, nCalls, retry_manager, poolVars, now, ticks, returned>>

\* detect_rendering_type, lines 705-718: the retry count is read from the
\* history map, the pool is swept, the result is returned.
ReturnSuccess(w, memory_high) ==
    /\ pc[w] = "post"
    /\ call' = [call EXCEPT ![w].result[1].retry_count = RetryCountOf(call[w].url)]
    /\ SetPool(restart_browser_if_needed(PoolState, now, memory_high))
    /\ pc' = [pc EXCEPT ![w] = "done"]
    /\ returned' = [returned EXCEPT ![call[w].id] = @ + 1]
    /\ histories' = Collect(histories, retry_manager, pc', call')
    /\ UNCHANGED <<threads, probe, batch, perfVars, lockVars, nCalls, retry_manager, nBrowsers, handed, now, ticks>>

\* A handler that catches RuntimeError only.
Caught_runtime_only(e) == e.type = "RuntimeError"

\* "except Exception as e" of detect_rendering_type: every exception the
\* operation and the retry manager raise is an Exception.
Caught(e) == e.type # None

\* detect_rendering_type, lines 720-749: the final failure becomes a result.
ReturnFailure(w) ==
    /\ pc[w] = "except"
    /\ LET c == call[w] IN
       IF Caught(c.exc)
       THEN /\ call' = [call EXCEPT ![w].result =
                            <<FailedResult(c, c.exc, RetryCountOf(c.url))>>]
            /\ pc' = [pc EXCEPT ![w] = "done"]
            /\ returned' = [returned EXCEPT ![c.id] = @ + 1]
       ELSE /\ pc' = [pc EXCEPT ![w] = "raised"]
            /\ UNCHANGED <<call, returned>>
    /\ histories' = Collect(histories, retry_manager, pc', call')
    /\ UNCHANGED <<threads, probe, batch, perfVars, lockVars, nCalls, retry_manager, poolVars, now, ticks>>

\* The clock advances while browsers are pooled.
Tick ==
    /\ ticks < MaxTicks
    /\ browser_pool # <<>>
    /\ ticks' = ticks + 1
    /\ now' = now + browser_max_age
    /\ probe' = NoProbe
    /\ UNCHANGED <<threads, batch, perfVars, lockVars, pc, call, nCalls, retry_manager, histories, poolVars, returned>>

\* A pooled rendering-engine process dies on its own.
BrowserCrash(b) ==
    /\ engines[b] = "live"
    /\ engines' = [engines EXCEPT ![b] = "dead"]
    /\ probe' = NoProbe
    /\ UNCHANGED <<threads, batch, perfVars, lockVars, pc, call, nCalls, retry_manager, histories, browser_pool,
                   browser_usage_count, browser_creation_time, nBrowsers, handed, now,
                   ticks, returned>>

\* cleanup_performance_resources -> PerformanceOptimizer.cleanup_resources,
\* called by process_websites once its executor has shut down.
Cleanup ==
    /\ \A w \in Workers : ~InFlight(pc[w])
    /\ browser_pool # <<>>
    /\ SetPool(cleanup_resources(PoolState))
    /\ UNCHANGED <<threads, probe, batch, perfVars, lockVars, pc, call, nCalls, retry_manager, histories, nBrowsers,
                   handed, now, ticks, returned>>

Overrides == {NoOverride} \cup (1..MaxOverride)

Next ==
    \/ \E w \in Workers, u \in Urls, o \in Overrides : Detect(w, u, o)
    \/ \E w \in Workers : OverrideClear(w)
    \/ \E w \in Workers : ExecuteStart(w)
    \/ \E w \in Workers : FetchOk(w)
    \/ \E w \in Workers, e \in FetchErrors : FetchFail(w, e)
    \/ \E w \in Workers : AcquireReuse(w)
    \/ \E w \in Workers : AcquireCreate(w)
    \/ \E w \in Workers : AcquireFail(w)
    \/ \E w \in Workers, page \in Pages : RenderOk(w, page)
    \/ \E w \in Workers : RenderFail(w)
    \/ \E w \in Workers, memory_high \in BOOLEAN : ReturnSuccess(w, memory_high)
    \/ \E w \in Workers : ReturnFailure(w)
    \/ Tick
    \/ \E b \in BrowserIds : BrowserCrash(b)
    \/ Cleanup

\* Concurrent calls on one detector.
Spec == Init /\ [][Next]_vars

\* Calls made one after the other.
SpecSeq == InitSeq /\ [][Next]_vars

\* Calls made one after the other on a detector constructed with any
\* max_retries from 1 to MaxAttempts.
InitRetry ==
    /\ \E max_retries \in 1..MaxAttempts : InitDetectorWith({"w1"}, max_retries)
    /\ probe = NoProbe
    /\ batch = NoBatch

SpecRetry == InitRetry /\ [][Next]_vars

\* Calls made one after the other on a detector whose retry manager has any
\* max_attempts that validate_config accepts, from 0 on ("if
\* config.retry.max_attempts < 0 or config.retry.max_attempts > 10: error").
InitAccepted ==
    /\ \E max_attempts \in 0..MaxAttempts : InitDetectorWith({"w1"}, max_attempts)
    /\ probe = NoProbe
    /\ batch = NoBatch

SpecAccepted == InitAccepted /\ [][Next]_vars

\* ------------------------------------------------------------- properties
\* A category is retryable when neither the retry configuration nor the
\* error handler rules it out.
RetryableCategory(category) ==
    category \notin non_retryable_errors /\ ErrorHandler_should_retry(category)

C2_HandleExclusive ==
    \A v, w \in Workers :
        (v # w /\ pc[v] = "render" /\ pc[w] = "render")
            => call[v].driver # call[w].driver

\* C3: no eviction terminates a handle while it is lent out: the engine a
\* call holds between its acquire and the end of its attempt has not been
\* quit by the pool.
C3_NoEvictionWhileLent ==
    \A w \in Workers :
        pc[w] = "render" => engines[call[w].driver] # "quit"

\* C4 (as the code has it): when the operation fails N-1 times with retryable
\* categories and then succeeds within max_attempts, the call returns the
\* operation's value with retry_count = N-1, the history is marked
\* successful with total_attempts = N, and it holds N-1 attempt records, one
\* per failed attempt, numbered in order.
C4_SuccessAfterRetries ==
    \A w \in Workers :
        (pc[w] = "done" /\ call[w].result[1].status = "Success") =>
            LET c == call[w]
                r == c.result[1]
                h == histories[c.id]
                N == c.invocations
            IN /\ N >= 1 /\ N <= c.max_attempts
               /\ [r EXCEPT !.retry_count = 0] \in { SuccessResult(c, p) : p \in Pages }
               /\ r.retry_count = N - 1
               /\ h.success /\ h.total_attempts = N
               /\ Len(h.attempts) = N - 1
               /\ \A i \in 1..Len(h.attempts) :
                     /\ h.attempts[i].attempt_number = i
                     /\ RetryableCategory(h.attempts[i].error_category)

\* A call that failed once, was retried and succeeded at its second attempt.
C4_Witness ==
    \E w \in Workers :
        /\ pc[w] = "done"
        /\ call[w].result[1].status = "Success"
        /\ call[w].invocations = 2
        /\ call[w].slept # <<>>

\* C4 as stated: after N-1 retryable failures and a success the reported
\* retry count is N-1 and the retry history has length N.
C4_HistoryLengthN ==
    \A w \in Workers :
        (pc[w] = "done" /\ call[w].result[1].status = "Success") =>
            /\ call[w].result[1].retry_count = call[w].invocations - 1
            /\ Len(histories[call[w].id].attempts) = call[w].invocations

\* C5: when the first failure falls into a non-retryable category and
\* max_attempts > 1, the operation is invoked exactly once, the error it
\* raised is raised by execute_with_retry at once, and no backoff is waited.
C5_NonRetryableOnce ==
    \A w \in Workers :
        (/\ call[w].id # 0
         /\ call[w].max_attempts > 1
         /\ Len(histories[call[w].id].attempts) >= 1
         /\ ~RetryableCategory(histories[call[w].id].attempts[1].error_category))
        => LET c == call[w]
               h == histories[c.id]
           IN /\ pc[w] \in {"except", "done"}
              /\ c.invocations = 1
              /\ c.slept = <<>>
              /\ c.exc = c.last_op_error
              /\ Len(h.attempts) = 1
              /\ h.attempts[1].delay_before_attempt = 0

\* A DNS failure at the first attempt of a call that had two attempts.
C5_Witness ==
    \E w \in Workers :
        /\ pc[w] = "except"
        /\ call[w].max_attempts = 2
        /\ call[w].exc = DnsFailure
        /\ call[w].invocations = 1

\* C6: when every attempt fails with a retryable category, the operation is
\* invoked exactly max_attempts times and execute_with_retry raises the error
\* of the last attempt, with the history's final_error set to it.
C6_ExhaustedRaisesLast ==
    \A w \in Workers :
        (/\ pc[w] = "except"
         /\ call[w].max_attempts >= 1
         /\ \A i \in 1..Len(histories[call[w].id].attempts) :
               RetryableCategory(histories[call[w].id].attempts[i].error_category))
        => LET c == call[w]
               h == histories[c.id]
           IN /\ c.invocations = c.max_attempts
              /\ Len(h.attempts) = c.max_attempts
              /\ c.exc # NoError
              /\ c.exc = c.last_op_error
              /\ h.final_error = <<categorize_error(c.last_op_error), c.last_op_error>>
              /\ ~h.success

\* Two attempts that failed in different retryable categories; the second
\* one's error is the one raised.
C6_Witness ==
    \E w \in Workers :
        /\ pc[w] = "except"
        /\ call[w].invocations = 2
        /\ Len(histories[call[w].id].attempts) = 2
        /\ histories[call[w].id].attempts[1].error_category = "HTTPError"
        /\ histories[call[w].id].attempts[2].error_category = "BrowserError"
        /\ call[w].exc = BrowserCreateError

\* C7: for every result of a call that invoked its operation, retry_count is
\* the number of invocations minus one and 0 <= retry_count < max_attempts,
\* also when other calls run concurrently on the same detector.
C7_RetryCountIsInvocationsMinusOne ==
    \A w \in Workers :
        (pc[w] = "done" /\ call[w].invocations >= 1) =>
            /\ call[w].result[1].retry_count = call[w].invocations - 1
            /\ 0 <= call[w].result[1].retry_count
            /\ call[w].result[1].retry_count < call[w].max_attempts

\* C8: every result returned has status Failed if and only if it carries an
\* error category, and every Failed result has no frameworks.
C8_FailedIffCategory ==
    \A w \in Workers :
        pc[w] = "done" =>
            LET r == call[w].result[1]
            IN /\ r.status \in {"Success", "Failed"}
               /\ r.status = "Failed" <=> r.error_category # None
               /\ r.status = "Failed" => r.frameworks = <<>>

\* A Failed result built from an exception the operation raised: a DNS
\* failure at the only attempt.
C8_Witness ==
    \E w \in Workers :
        /\ pc[w] = "done"
        /\ call[w].result[1].status = "Failed"
        /\ call[w].result[1].error_category = "DNSError"
        /\ call[w].invocations = 1

\* C9: a raw fetch answered with an HTTP error status that
\* is_retryable_http_status rejects (404) is terminal: one attempt, and the
\* result is Failed with category HTTPError and retry_count 0.
C9_TerminalHttpStatus ==
    \A w \in Workers :
        (/\ pc[w] = "done"
         /\ call[w].exc.type = "HTTPError"
         /\ ~is_retryable_http_status(call[w].exc.response))
        => /\ call[w].invocations = 1
           /\ call[w].result[1].status = "Failed"
           /\ call[w].result[1].error_category = "HTTPError"
           /\ call[w].result[1].retry_count = 0

\* C10: when the raw fetch answered with status s >= 400 and the call ends
\* Failed on it, the result's http_status_code is s.
C10_HttpStatusReported ==
    \A w \in Workers :
        (/\ pc[w] = "done"
         /\ call[w].result[1].status = "Failed"
         /\ call[w].exc.type = "HTTPError"
         /\ call[w].exc.response >= 400)
        => call[w].result[1].http_status_code = call[w].exc.response

\* C11: a call whose first attempt fails with category DNSError, as a raw
\* fetch that fails on the DNS lookup does, makes exactly one attempt and
\* returns a Failed result with category DNSError and retry_count 0,
\* whatever max_attempts >= 1 is.
C11_DnsFailsOnce ==
    \A w \in Workers :
        (/\ pc[w] = "done"
         /\ call[w].max_attempts >= 1
         /\ Len(histories[call[w].id].attempts) >= 1
         /\ histories[call[w].id].attempts[1].error_category = "DNSError")
        => /\ call[w].invocations = 1
           /\ categorize_error(call[w].exc) = "DNSError"
           /\ call[w].result[1].status = "Failed"
           /\ call[w].result[1].error_category = "DNSError"
           /\ call[w].result[1].retry_count = 0

\* A call with two attempts allowed has returned after one DNS failure.
C11_Witness ==
    \E w \in Workers :
        /\ pc[w] = "done"
        /\ call[w].max_attempts = 2
        /\ call[w].exc = DnsFailure
        /\ call[w].last_op_error = DnsFailure
        /\ call[w].result[1].retry_count = 0

\* ------------------------------------------------- the pool on its own
\* The PerformanceOptimizer under any sequence of calls of its methods:
\* get_optimized_browser, restart_browser_if_needed and cleanup_resources,
\* with the clock advancing and engines dying in between.
InitPool == InitWith({})

RECURSIVE Acquisitions(_)
Acquisitions(n) == IF n = 0 THEN 0 ELSE handed[n] + Acquisitions(n - 1)

\* PerformanceOptimizer.get_optimized_browser as one step under _browser_lock;
\* create_ok tells whether _create_optimized_browser succeeds when it is called.
get_optimized_browser(create_ok) ==
    /\ threads = {}
    /\ Acquisitions(MaxBrowsers) < MaxAcquires
    /\ LET r == _get_reusable_browser(browser_pool, PoolState, now)
           b == nBrowsers + 1
       IN IF r.browser # NoBrowser
          THEN /\ SetPool(r.P)
               /\ handed' = [handed EXCEPT ![r.browser] = @ + 1]
               /\ UNCHANGED nBrowsers
          ELSE IF create_ok /\ nBrowsers < MaxBrowsers
          THEN /\ SetPool(RegisterBrowser(r.P, b, now))
               /\ nBrowsers' = b
               /\ handed' = [handed EXCEPT ![b] = @ + 1]
          ELSE /\ SetPool(r.P)
               /\ UNCHANGED <<nBrowsers, handed>>
    /\ probe' = NoProbe
    /\ UNCHANGED <<threads, batch, perfVars, lockVars, pc, call, nCalls, retry_manager, histories, now, ticks, returned>>

\* A call of restart_browser_if_needed or cleanup_resources that has just
\* returned: whether memory was over the threshold, the pool as the call
\* found it, and the time of the call.  Any later step of the pool clears it.
PoolCall(op, memory_high) ==
    [op |-> op,
     input |-> [memory_high |-> memory_high, before |-> PoolState, now |-> now],
     output |-> <<>>]

\* PerformanceOptimizer.restart_browser_if_needed as one step under _browser_lock
PoolRestart(memory_high) ==
    /\ threads = {}
    /\ browser_pool # <<>>
    /\ SetPool(restart_browser_if_needed(PoolState, now, memory_high))
    /\ probe' = PoolCall("restart", memory_high)
    /\ UNCHANGED <<threads, batch, perfVars, lockVars, pc, call, nCalls, retry_manager, histories, nBrowsers, handed,
                   now, ticks, returned>>

\* PerformanceOptimizer.cleanup_resources as one step under _browser_lock
PoolCleanup ==
    /\ threads = {}
    /\ browser_pool # <<>>
    /\ SetPool(cleanup_resources(PoolState))
    /\ probe' = PoolCall("cleanup", FALSE)
    /\ UNCHANGED <<threads, batch, perfVars, lockVars, pc, call, nCalls, retry_manager, histories, nBrowsers, handed,
                   now, ticks, returned>>

NextPool ==
    \/ \E create_ok \in BOOLEAN : get_optimized_browser(create_ok)
    \/ \E memory_high \in BOOLEAN : PoolRestart(memory_high)
    \/ Tick
    \/ \E b \in BrowserIds : BrowserCrash(b)
    \/ PoolCleanup

SpecPool == InitPool /\ [][NextPool]_vars

\* C12: once restartThreshold acquisitions have returned a pooled handle, the
\* next acquire returns a different one: no handle is returned by more than
\* restartThreshold acquisitions.
C12_AtMostThresholdReturns ==
    \A b \in BrowserIds : handed[b] <= browser_restart_threshold

\* ------------------------------------------------- the rendering classifier
\* The signals of one rendered page: the frameworks _detect_frameworks found,
\* metrics.content_size_difference, whether the HTML or text changed while
\* the page was watched, window.mutationCount, and metrics.framework_indicators.
FrameworkLists == { <<>>, <<"jQuery">>, <<"React">>, <<"jQuery", "React">> }
SizeDifferences == {0, 501, 1000, 1001, 2000, 2001}
MutationCounts == {0, 5, 6, 11, 15, 16, 21}
IndicatorLists == { <<>>, <<"ng-">> }
\* browser_elements - http_elements and len(browser_scripts) - len(http_scripts)
\* of _compare_content, on both sides of the tests "> 10" and "> 2"
ElementIncreases == {10, 11}
ScriptIncreases == {2, 3}
\* What goes wrong while the page is classified: nothing; "content":
\* driver.page_source is None, so len(browser_content) raises TypeError;
\* "parse": BeautifulSoup raises on one of the documents; "script":
\* driver.execute_script raises in _analyze_dynamic_content.
Faults == {"none", "content", "parse", "script"}
Signals ==
    [frameworks : FrameworkLists, content_size_difference : SizeDifferences,
     changed : BOOLEAN, mutation_count : MutationCounts,
     framework_indicators : IndicatorLists,
     element_increase : ElementIncreases, script_increase : ScriptIncreases,
     fault : Faults]

\* An exception leaves the function in place of a verdict.
Raised == "raised"

\* _compare_content, once len(browser_content) - len(http_content) is taken:
\* the try block sets dynamic_content_detected and framework_indicators, and
\* "except Exception: pass" leaves the metrics with the size difference only.
_compare_content(sig) ==
    IF sig.fault = "parse"
    THEN [content_size_difference |-> sig.content_size_difference,
          dynamic_content_detected |-> FALSE,
          framework_indicators |-> <<>>]
    ELSE [content_size_difference |-> sig.content_size_difference,
          dynamic_content_detected |->
              (sig.element_increase > 10 \/ sig.script_increase > 2),
          framework_indicators |-> sig.framework_indicators]

\* _analyze_dynamic_content, lines 548-560: dynamic_detected
_analyze_dynamic_content(changed, mutation_count) ==
    changed \/ mutation_count > 5

\* _analyze_dynamic_content as _classify_rendering_type calls it: the pair
\* (dynamic_detected, mutation_count), (False, 0) when the probe raises.
DynamicProbe(sig) ==
    IF sig.fault = "script"
    THEN [dynamic_detected |-> FALSE, mutation_count |-> 0]
    ELSE [dynamic_detected |-> _analyze_dynamic_content(sig.changed, sig.mutation_count),
          mutation_count |-> sig.mutation_count]

modern_frameworks == {"React", "Vue", "Next.js", "Nuxt.js"}
\* any(fw in modern_frameworks for fw in frameworks)
AnyModern(frameworks) ==
    \E i \in 1..Len(frameworks) : frameworks[i] \in modern_frameworks

\* The score is a Python float.  A float is written [c, e]: c the hundredth
\* it is nearest to, e its distance, in units in the last place, from the
\* double nearest to c/100.  Float(c) is the literal c/100.
Float(c) == [c |-> c, e |-> 0]

\* The additions of _calculate_weighted_score whose IEEE-754 result is not the
\* double nearest to the decimal sum, as <<c, e, addend, e of the result>>:
\* 0.2 + 0.1 and 0.1 + 0.2 are 0.30000000000000004, 0.4 + 0.2 is
\* 0.6000000000000001, 0.7 + 0.2 is 0.8999999999999999, and so on.
InexactSums ==
    { <<5, 0, 10, 1>>, <<10, 0, 5, 1>>, <<10, 0, 20, 1>>, <<20, 0, 10, 1>>,
      <<30, 1, 5, 1>>, <<35, 0, 10, -1>>, <<35, 1, 10, 1>>, <<40, 0, 20, 1>>,
      <<60, 1, 5, 1>>, <<60, 1, 10, 1>>, <<65, 1, 10, 1>>, <<70, 0, 10, -1>>,
      <<70, 0, 20, -1>>, <<80, -1, 10, -1>>, <<80, 0, 5, 1>>, <<85, 1, 10, 1>>,
      <<90, -1, 10, -1>>, <<90, -1, 20, -1>>, <<100, -1, 10, -1>>,
      <<105, 0, 10, 1>>, <<110, 0, 10, 1>> }

\* score += a/100
FloatAdd(x, a) ==
    LET hit == { r \in InexactSums : r[1] = x.c /\ r[2] = x.e /\ r[3] = a }
    IN [c |-> x.c + a, e |-> IF hit = {} THEN 0 ELSE (CHOOSE r \in hit : TRUE)[4]]

\* x >= y, x <= y on floats
FloatGE(x, y) == x.c > y.c \/ (x.c = y.c /\ x.e >= y.e)
FloatLE(x, y) == x.c < y.c \/ (x.c = y.c /\ x.e <= y.e)
\* min(x, y)
FloatMin(x, y) == IF FloatLE(x, y) THEN x ELSE y

\* WebsiteRendererDetector._calculate_weighted_score
_calculate_weighted_score(metrics, frameworks, dynamic_detected, mutation_count) ==
    LET s0 == Float(0)
        s1 == IF frameworks # <<>>
              THEN IF AnyModern(frameworks)
                   THEN FloatAdd(FloatAdd(s0, 40), 10) ELSE FloatAdd(s0, 40)
              ELSE s0
        size_diff == metrics.content_size_difference
        s2 == IF size_diff > 2000 THEN FloatAdd(s1, 30)
              ELSE IF size_diff > 1000 THEN FloatAdd(s1, 20)
              ELSE IF size_diff > 500 THEN FloatAdd(s1, 10)
              ELSE s1
        s3 == IF dynamic_detected THEN FloatAdd(s2, 20) ELSE s2
        s4 == IF mutation_count > 20 THEN FloatAdd(s3, 20)
              ELSE IF mutation_count > 10 THEN FloatAdd(s3, 10)
              ELSE IF mutation_count > 5 THEN FloatAdd(s3, 5)
              ELSE s3
        s5 == IF metrics.framework_indicators # <<>> THEN FloatAdd(s4, 10) ELSE s4
    IN FloatMin(s5, Float(100))

CSR_THRESHOLD == 60
SSR_THRESHOLD == 30

\* _classify_rendering_type, lines 857-869: the metrics of _compare_content
\* with dynamic_content_detected and dom_mutation_count overwritten by the
\* results of _analyze_dynamic_content, and the score of the page.
ClassifierMetrics(sig) ==
    [_compare_content(sig) EXCEPT
        !.dynamic_content_detected = DynamicProbe(sig).dynamic_detected]
csr_score(sig) ==
    _calculate_weighted_score(ClassifierMetrics(sig), sig.frameworks,
                              DynamicProbe(sig).dynamic_detected,
                              DynamicProbe(sig).mutation_count)

\* The try block of _classify_rendering_type, lines 857-896
Classification(sig) ==
    IF sig.fault = "content" THEN Raised
    ELSE IF FloatGE(csr_score(sig), Float(CSR_THRESHOLD)) THEN "Client-Side Rendered"
    ELSE IF FloatLE(csr_score(sig), Float(SSR_THRESHOLD)) THEN "Server-Side Rendered"
    ELSE IF AnyModern(sig.frameworks) THEN "Client-Side Rendered"
    ELSE IF ClassifierMetrics(sig).content_size_difference > 1000
         THEN "Client-Side Rendered"
    ELSE IF DynamicProbe(sig).mutation_count > 15 THEN "Client-Side Rendered"
    ELSE "Server-Side Rendered"

\* A classifier that decides on the two thresholds alone.
_classify_rendering_type_thresholds_only(sig) ==
    IF sig.fault = "content" THEN "Server-Side Rendered"
    ELSE IF FloatGE(csr_score(sig), Float(CSR_THRESHOLD)) THEN "Client-Side Rendered"
    ELSE "Server-Side Rendered"

\* A classifier whose Server-Side threshold is 0.5.
_classify_rendering_type_low_half(sig) ==
    IF sig.fault = "content" THEN "Server-Side Rendered"
    ELSE IF FloatGE(csr_score(sig), Float(CSR_THRESHOLD)) THEN "Client-Side Rendered"
    ELSE IF FloatLE(csr_score(sig), Float(50)) THEN "Server-Side Rendered"
    ELSE Classification(sig)

\* A classifier with no handler of its own.
_classify_rendering_type_no_handler(sig) == Classification(sig)

\* WebsiteRendererDetector._classify_rendering_type, lines 841-905: the
\* try block, and "except Exception: ... return SERVER_SIDE_RENDERED"
_classify_rendering_type(sig) ==
    IF Classification(sig) = Raised THEN "Server-Side Rendered"
    ELSE Classification(sig)

\* ------------------------------------------- functions applied on their own
\* The pure functions of the program, each applied to an input drawn from
\* the set its callers can pass; probe holds the input and then the output.
progVars == <<threads, pc, call, nCalls, retry_manager, histories, browser_pool,
              browser_usage_count, browser_creation_time, engines, nBrowsers, handed,
              now, ticks, returned>>

ProbeOf(op, input) == [op |-> op, input |-> input, output |-> <<>>]

ClassifyProbes == { ProbeOf("classify", sig) : sig \in Signals }

\* _classify_rendering_type applied to the signals of a page
Classify ==
    /\ probe.op = "classify"
    /\ probe.output = <<>>
    /\ probe' = [probe EXCEPT !.output = <<_classify_rendering_type(probe.input)>>]
    /\ UNCHANGED <<progVars, batch, perfVars, lockVars>>

\* Exception classes categorize_error is handed, and the indicator lists a
\* message can match: any combination of them.
ExceptionTypes == {"gaierror", "SSLError", "ReadTimeout", "TimeoutException",
                   "WebDriverException", "InvalidSessionIdException", "HTTPError",
                   "InvalidURL", "ValueError", "ConnectionError", "RuntimeError"}
Marks == {"dns", "ssl", "timeout", "browser", "http", "parse", "network"}
Exceptions == [type : ExceptionTypes, marks : SUBSET Marks, response : {NoStatus}]

CategorizeProbes == { ProbeOf("categorize", e) : e \in Exceptions }

\* categorize_error applied to an exception
Categorize ==
    /\ probe.op = "categorize"
    /\ probe.output = <<>>
    /\ probe' = [probe EXCEPT !.output = <<categorize_error(probe.input)>>]
    /\ UNCHANGED <<progVars, batch, perfVars, lockVars>>

\* ------------------------------------------------ messages and indicators
\* A message is written as the sequence of its words and of the characters
\* between them, so that "x in error_message" is: the words of x occur in the
\* message one after the other.
\* ErrorHandler.__init__: self.non_retryable_patterns
non_retryable_patterns ==
    [DNSError |->
        { <<"Name", " ", "or", " ", "service", " ", "not", " ", "known">>,
          <<"nodename", " ", "nor", " ", "servname", " ", "provided">>,
          <<"getaddrinfo", " ", "failed">>,
          <<"No", " ", "address", " ", "associated", " ", "with", " ", "hostname">> },
     SSLError |->
        { <<"certificate", " ", "verify", " ", "failed">>,
          <<"SSL", " ", "certificate", " ", "problem">>,
          <<"SSL", ":", " ", "CERTIFICATE", "_", "VERIFY", "_", "FAILED">>,
          <<"certificate", " ", "has", " ", "expired">>,
          <<"hostname", " ", "doesn't", " ", "match">> }]

\* The indicator lists of _is_dns_error, _is_ssl_error, _is_timeout_error,
\* _is_browser_error, _is_http_error, _is_parse_error and _is_network_error
error_indicators ==
    [dns |->
        { <<"name", " ", "or", " ", "service", " ", "not", " ", "known">>,
          <<"nodename", " ", "nor", " ", "servname", " ", "provided">>,
          <<"getaddrinfo", " ", "failed">>,
          <<"no", " ", "address", " ", "associated", " ", "with", " ", "hostname">>,
          <<"dns">>, <<"name", " ", "resolution">>, <<"hostname">> },
     ssl |->
        { <<"ssl">>, <<"certificate">>, <<"tls">>, <<"handshake">>,
          <<"verify", " ", "failed">>, <<"certificate", "_", "verify", "_", "failed">>,
          <<"ssl", " ", "certificate", " ", "problem">>,
          <<"certificate", " ", "has", " ", "expired">>,
          <<"hostname", " ", "doesn't", " ", "match">> },
     timeout |->
        { <<"timeout">>, <<"timed", " ", "out">>, <<"read", " ", "timeout">>,
          <<"connection", " ", "timeout">>, <<"request", " ", "timeout">>,
          <<"response", " ", "timeout">> },
     browser |->
        { <<"webdriver">>, <<"selenium">>, <<"chrome">>, <<"browser">>, <<"driver">>,
          <<"session", " ", "not", " ", "created">>, <<"invalid", " ", "session">>,
          <<"element", " ", "not", " ", "found">>,
          <<"element", " ", "not", " ", "interactable">>,
          <<"unexpected", " ", "alert">> },
     http |->
        { <<"http", " ", "error">>, <<"status", " ", "code">>, <<"404">>, <<"403">>,
          <<"500">>, <<"502">>, <<"503">>, <<"504">>, <<"bad", " ", "request">>,
          <<"unauthorized">>, <<"forbidden">>, <<"not", " ", "found">>,
          <<"internal", " ", "server", " ", "error">>, <<"bad", " ", "gateway">>,
          <<"service", " ", "unavailable">> },
     parse |->
        { <<"parse", " ", "error">>, <<"parsing">>, <<"invalid", " ", "json">>,
          <<"decode", " ", "error">>, <<"encoding", " ", "error">>,
          <<"unicode", " ", "error">>, <<"malformed">>,
          <<"failed", " ", "to", " ", "parse">> },
     network |->
        { <<"connection", " ", "error">>, <<"network", " ", "error">>,
          <<"connection", " ", "refused">>, <<"connection", " ", "reset">>,
          <<"connection", " ", "aborted">>, <<"network", " ", "unreachable">>,
          <<"host", " ", "unreachable">>,
          <<"no", " ", "route", " ", "to", " ", "host">> }]

\* str.lower() on a word
Lower(word) ==
    CASE word = "CERTIFICATE" -> "certificate"
      [] word = "FAILED" -> "failed"
      [] word = "Name" -> "name"
      [] word = "No" -> "no"
      [] word = "SSL" -> "ssl"
      [] word = "VERIFY" -> "verify"
      [] OTHER -> word

\* "indicator in error_message"
Contains(error_message, indicator) ==
    \E i \in 0..(Len(error_message) - Len(indicator)) :
        SubSeq(error_message, i + 1, i + Len(indicator)) = indicator

\* The indicator lists that error_message = str(exception).lower() matches.
\* (No message here holds a digit, so the status-code pattern of
\* _is_http_error matches none.)
MarksOf(message) ==
    LET error_message == [i \in 1..Len(message) |-> Lower(message[i])]
    IN { list \in DOMAIN error_indicators :
           \E indicator \in error_indicators[list] : Contains(error_message, indicator) }

\* Exception(message): an exception of no class the handler tests for
MessageError(message) ==
    [type |-> "Exception", marks |-> MarksOf(message), response |-> NoStatus]


\* The entries of the table: a category and a phrase listed under it
PatternProbes ==
    { ProbeOf("pattern", [category |-> category, message |-> message]) :
        category \in {"DNSError"}, message \in non_retryable_patterns.DNSError }
    \cup
    { ProbeOf("pattern", [category |-> category, message |-> message]) :
        category \in {"SSLError"}, message \in non_retryable_patterns.SSLError }

\* categorize_error applied to an error whose message is the phrase
CategorizePattern ==
    /\ probe.op = "pattern"
    /\ probe.output = <<>>
    /\ probe' = [probe EXCEPT
                    !.output = <<categorize_error(MessageError(probe.input.message))>>]
    /\ UNCHANGED <<progVars, batch, perfVars, lockVars>>

\* Failed attempts of execute_with_retry: attempt k of max_attempts fails
\* with a category under a policy with any list of non-retryable categories.
RetryConfigs == [max_attempts : 1..MaxAttempts, non_retryable_errors : SUBSET Categories]
FailedAttempts ==
    { f \in [config : RetryConfigs, error_category : Categories, attempt : 1..MaxAttempts] :
        f.attempt <= f.config.max_attempts }

AttemptProbes == { ProbeOf("attempt", f) : f \in FailedAttempts }

\* The except branch of execute_with_retry for one failed attempt
AttemptFails ==
    /\ probe.op = "attempt"
    /\ probe.output = <<>>
    /\ probe' = [probe EXCEPT !.output =
                    <<AfterFailure(probe.input.config, probe.input.error_category,
                                   probe.input.attempt)>>]
    /\ UNCHANGED <<progVars, batch, perfVars, lockVars>>

\* Backoff settings: a base in seconds and a multiplier, the detector's own
\* (1.0 and 2.0) among them, and one multiplier below 1.
BackoffBases == {1, 2, 30}
BackoffMultipliers == { Rational(1, 2), Rational(1, 1), Rational(3, 2),
                        Rational(2, 1), Rational(5, 1) }
FirstAttempt == -1
BackoffProbes ==
    { ProbeOf("backoff", [base |-> b, multiplier |-> m]) :
        b \in BackoffBases, m \in BackoffMultipliers }

\* get_backoff_delay applied to the next attempt number, from FirstAttempt
\* up to one past MaxAttempts; the output lists the delays in that order.
Backoff ==
    /\ probe.op = "backoff"
    /\ FirstAttempt + Len(probe.output) <= MaxAttempts + 1
    /\ probe' = [probe EXCEPT !.output =
                    Append(@, RetryManager_get_backoff_delay(
                                  probe.input.base, probe.input.multiplier,
                                  FirstAttempt + Len(probe.output)))]
    /\ UNCHANGED <<progVars, batch, perfVars, lockVars>>

\* Retry sections of the configuration object handed to the constructor:
\* RetryConfig's defaults (3 attempts, 1.0 s, 2.0, DNS and SSL) among them.
ConfiguredRetries ==
    [max_attempts : 1..MaxAttempts, backoff_base : BackoffBases,
     backoff_multiplier : BackoffMultipliers,
     non_retryable_errors : { {"DNSError", "SSLError"},
                              {"DNSError", "SSLError", "TimeoutError"} }]

\* WebsiteRendererDetector.__init__, lines 84-126, called as
\* WebsiteRendererDetector(config=config): the RetryConfig of the retry
\* manager it builds.  max_retries is the parameter's default.
WebsiteRendererDetector_init(max_retries, config) ==
    [max_attempts |-> max_retries,
     backoff_base |-> backoff_base,
     backoff_multiplier |-> Rational(backoff_multiplier, 1),
     non_retryable_errors |-> non_retryable_errors]

ConstructProbes == { ProbeOf("construct", [retry |-> r]) : r \in ConfiguredRetries }

\* The detector is constructed from a configuration object
Construct ==
    /\ probe.op = "construct"
    /\ probe.output = <<>>
    /\ probe' = [probe EXCEPT !.output =
                    <<WebsiteRendererDetector_init(DefaultMaxRetries, probe.input)>>]
    /\ UNCHANGED <<progVars, batch, perfVars, lockVars>>

Probes == ClassifyProbes \cup CategorizeProbes \cup AttemptProbes \cup BackoffProbes
          \cup ConstructProbes \cup PatternProbes

InitPure == \E p \in Probes : InitState({}, p)

NextPure ==
    \/ Classify
    \/ Categorize
    \/ AttemptFails
    \/ Backoff
    \/ Construct
    \/ CategorizePattern

SpecPure == InitPure /\ [][NextPure]_vars

\* The score _classify_rendering_type computed for the signals of the probe.
ScoreOf(sig) ==
    _calculate_weighted_score(
        [content_size_difference |-> sig.content_size_difference,
         framework_indicators |-> sig.framework_indicators],
        sig.frameworks,
        _analyze_dynamic_content(sig.changed, sig.mutation_count),
        sig.mutation_count)

\* A page has been classified with no step of the classification raising.
Classified ==
    probe.op = "classify" /\ probe.output # <<>> /\ probe.input.fault = "none"

OneModernMarkerOnly ==
    [frameworks |-> <<"React">>, content_size_difference |-> 0, changed |-> FALSE,
     mutation_count |-> 0, framework_indicators |-> <<>>,
     element_increase |-> 10, script_increase |-> 2, fault |-> "none"]

\* C13: the verdict is decided from the score and the signals: a score >= 0.6
\* gives Client-Side Rendered, a score <= 0.3 gives Server-Side Rendered, and
\* between them a modern framework, a size difference above 1000 or more
\* than 15 mutations give Client-Side Rendered and anything else Server-Side
\* Rendered; one modern marker with no other signal scores 0.5 and is
\* Client-Side Rendered.
C13_VerdictFromScoreAndSignals ==
    Classified =>
        LET sig == probe.input
            score == ScoreOf(sig)
            verdict == probe.output[1]
            high == FloatGE(score, Float(60))
            low == FloatLE(score, Float(30))
        IN /\ high => verdict = "Client-Side Rendered"
           /\ low => verdict = "Server-Side Rendered"
           /\ (~high /\ ~low) =>
                  verdict = IF \/ AnyModern(sig.frameworks)
                               \/ sig.content_size_difference > 1000
                               \/ sig.mutation_count > 15
                            THEN "Client-Side Rendered"
                            ELSE "Server-Side Rendered"
           /\ sig = OneModernMarkerOnly =>
                  score = Float(50) /\ verdict = "Client-Side Rendered"

\* The one-modern-marker page has been classified from the ambiguous band.
C13_Witness ==
    /\ Classified
    /\ probe.input = OneModernMarkerOnly
    /\ ~FloatGE(ScoreOf(probe.input), Float(60))
    /\ ~FloatLE(ScoreOf(probe.input), Float(30))
    /\ probe.output = <<"Client-Side Rendered">>

\* The priority order of the categories, highest first.
Priority == <<"DNSError", "SSLError", "TimeoutError", "BrowserError",
              "HTTPError", "ParseError", "NetworkError", "UnknownError">>

\* The rule of a category: its class test or its indicator list.
Rule(category, e) ==
    CASE category = "DNSError" -> _is_dns_error(e)
      [] category = "SSLError" -> _is_ssl_error(e)
      [] category = "TimeoutError" -> _is_timeout_error(e)
      [] category = "BrowserError" -> _is_browser_error(e)
      [] category = "HTTPError" -> _is_http_error(e)
      [] category = "ParseError" -> _is_parse_error(e)
      [] category = "NetworkError" -> _is_network_error(e)
      [] OTHER -> FALSE

Matching(e) == { i \in 1..7 : Rule(Priority[i], e) }

Categorized == probe.op = "categorize" /\ probe.output # <<>>

\* C14: categorize_error always answers with one of the eight categories; the
\* answer is the matching category of highest priority in the order DNS,
\* SSL, Timeout, Browser, HTTP, Parse, Network, and Unknown when no rule
\* matches.
C14_FirstMatchWins ==
    Categorized =>
        LET e == probe.input
            c == probe.output[1]
        IN /\ c \in Categories
           /\ Matching(e) = {} => c = "UnknownError"
           /\ Matching(e) # {} =>
                  \E i \in Matching(e) :
                      /\ c = Priority[i]
                      /\ \A j \in Matching(e) : i <= j

\* An exception matching the rules of several categories, the network rule
\* among them, has been given the category of higher priority.
C14_Witness ==
    /\ Categorized
    /\ Cardinality(Matching(probe.input)) >= 2
    /\ 7 \in Matching(probe.input)
    /\ probe.output[1] # "NetworkError"

AttemptFailed == probe.op = "attempt" /\ probe.output # <<>>

AttemptOf(i) == FirstAttempt + i - 1

\* C16: the backoff delay is 0 for an attempt number <= 0 and
\* base * multiplier^(attempt - 1) from attempt 1 on, so the delay of attempt 1
\* is the base, and with a multiplier >= 1 no delay is below the one before it.
C16_BackoffDelay ==
    probe.op = "backoff" =>
        LET base == probe.input.base
            m == probe.input.multiplier
            delay == probe.output
        IN \A i \in 1..Len(delay) :
            /\ AttemptOf(i) <= 0 => RationalEq(delay[i], Rational(0, 1))
            /\ AttemptOf(i) = 1 => RationalEq(delay[i], Rational(base, 1))
            /\ AttemptOf(i) > 1 =>
                   RationalEq(delay[i], Rational(delay[i - 1].n * m.n, delay[i - 1].d * m.d))
            /\ (i > 1 /\ m.n >= m.d) => RationalLE(delay[i - 1], delay[i])

\* With multiplier 1.5 the delay of attempt 3 has been computed and exceeds
\* the delay of attempt 2.
C16_Witness ==
    /\ probe.op = "backoff"
    /\ probe.input.multiplier = Rational(3, 2)
    /\ Len(probe.output) >= 5
    /\ AttemptOf(5) = 3
    /\ ~RationalLE(probe.output[5], probe.output[4])

\* ------------------------------------------------------- the batch runner
\* process_websites.process_site, lines 215-232: the result the batch runner
\* takes for a detect call that has ended, the call's own result when it
\* returned and a result of category "ProcessingError" when it raised.
process_site(w) ==
    IF pc[w] = "done" THEN call[w].result[1]
    ELSE [url |-> call[w].original_url, final_url |-> call[w].original_url,
          rendering_type |-> "Not Accessible", status |-> "Failed",
          frameworks |-> <<>>, error_category |-> "ProcessingError",
          retry_count |-> 0, http_status_code |-> NoStatus]

Ended(w) == pc[w] \in {"done", "raised"}

\* C17: every Failed result that reaches the caller of a detect call carries
\* one of the eight error categories, and a result that is not Failed
\* carries none.
C17_OnlyTheEightCategories ==
    \A w \in Workers :
        Ended(w) =>
            LET r == process_site(w)
            IN /\ r.status = "Failed" => r.error_category \in Categories
               /\ r.status # "Failed" => r.error_category = None

\* A call that failed on an HTTP error status has handed its Failed result
\* to its caller.
C17_Witness ==
    \E w \in Workers :
        /\ Ended(w)
        /\ call[w].exc.type = "HTTPError"
        /\ process_site(w).status = "Failed"
        /\ process_site(w).error_category = "HTTPError"

\* ------------------------------------------------- the request counters
\* detect_rendering_type on the threads of the executor, each call reduced to
\* its outcome, followed by _update_performance_metrics(result, success).
\* "self.performance_metrics[k] += 1" reads the entry, adds one and stores
\* the sum; no lock is held, so another thread may run between the read and
\* the store.
CounterOf(success) == IF success THEN "successful_requests" ELSE "failed_requests"

\* execute_with_retry has returned (success) or raised (not success);
\* _update_performance_metrics is entered.
UpdateStart(w, success) ==
    /\ updating[w].pc = "idle"
    /\ updating[w].calls < MaxCalls
    /\ updating' = [updating EXCEPT ![w].pc = "read_total", ![w].success = success]
    /\ UNCHANGED <<progVars, probe, batch, lockVars, performance_metrics>>

\* line 1169, the read of performance_metrics['total_requests']
ReadTotal(w) ==
    /\ updating[w].pc = "read_total"
    /\ updating' = [updating EXCEPT ![w].pc = "store_total",
                                    ![w].loaded = performance_metrics.total_requests]
    /\ UNCHANGED <<progVars, probe, batch, lockVars, performance_metrics>>

\* line 1169, the store
StoreTotal(w) ==
    /\ updating[w].pc = "store_total"
    /\ performance_metrics' =
          [performance_metrics EXCEPT !.total_requests = updating[w].loaded + 1]
    /\ updating' = [updating EXCEPT ![w].pc = "read_count"]
    /\ UNCHANGED <<progVars, probe, batch, lockVars>>

\* lines 1172-1175, the read of successful_requests or failed_requests
ReadCount(w) ==
    /\ updating[w].pc = "read_count"
    /\ updating' = [updating EXCEPT ![w].pc = "store_count",
                       ![w].loaded = performance_metrics[CounterOf(updating[w].success)]]
    /\ UNCHANGED <<progVars, probe, batch, lockVars, performance_metrics>>

\* lines 1172-1175, the store; the detect call then returns its result
StoreCount(w) ==
    /\ updating[w].pc = "store_count"
    /\ performance_metrics' =
          [performance_metrics EXCEPT ![CounterOf(updating[w].success)] =
                                          updating[w].loaded + 1]
    /\ updating' = [updating EXCEPT ![w].pc = "idle", ![w].calls = @ + 1]
    /\ UNCHANGED <<progVars, probe, batch, lockVars>>

NextMetrics ==
    \/ \E w \in Workers, success \in BOOLEAN : UpdateStart(w, success)
    \/ \E w \in Workers : ReadTotal(w)
    \/ \E w \in Workers : StoreTotal(w)
    \/ \E w \in Workers : ReadCount(w)
    \/ \E w \in Workers : StoreCount(w)

SpecMetrics == Init /\ [][NextMetrics]_vars

\* ------------------------------------------------------- the pool's mutex
\* The worker threads calling the three methods of the PerformanceOptimizer
\* that take _browser_lock: get_optimized_browser, restart_browser_if_needed
\* and cleanup_resources.  Each is "with self._browser_lock: <body>"; inside
\* the body no method takes the lock again (_get_reusable_browser,
\* _create_optimized_browser, _cleanup_old_browsers and
\* _remove_browser_from_pool do not lock).
LockedMethods == {"get_optimized_browser", "restart_browser_if_needed", "cleanup_resources"}

\* A with block that releases the lock only when its body returns.
with_exit_on_return_only(lock, outcome) ==
    IF outcome = "raised" THEN lock ELSE Unlocked

\* Lock.__exit__ at the end of the with block: release(), whether the body
\* returned or raised.
with_exit(lock, outcome) == Unlocked

\* A thread calls one of the methods.
LockedCall(w, op) ==
    /\ locking[w].pc = "idle"
    /\ locking[w].calls < MaxCalls
    /\ locking' = [locking EXCEPT ![w].pc = "wait", ![w].op = op]
    /\ UNCHANGED <<progVars, probe, batch, perfVars, browser_lock>>

\* Lock.__enter__: acquire(), which blocks while another thread holds the lock
LockEnter(w) ==
    /\ locking[w].pc = "wait"
    /\ browser_lock = Unlocked
    /\ browser_lock' = w
    /\ locking' = [locking EXCEPT ![w].pc = "body"]
    /\ UNCHANGED <<progVars, probe, batch, perfVars>>

\* The body of get_optimized_browser, lines 74-92: a pooled browser is
\* reused, or a new one is constructed and registered, or its construction
\* raises.
BodyAcquire(w, create_ok) ==
    /\ locking[w].pc = "body"
    /\ locking[w].op = "get_optimized_browser"
    /\ LET r == _get_reusable_browser(browser_pool, PoolState, now)
           b == nBrowsers + 1
       IN IF r.browser # NoBrowser
          THEN /\ SetPool(r.P)
               /\ handed' = [handed EXCEPT ![r.browser] = @ + 1]
               /\ locking' = [locking EXCEPT ![w].pc = "exit", ![w].outcome = "returned"]
               /\ UNCHANGED nBrowsers
          ELSE IF create_ok /\ nBrowsers < MaxBrowsers
          THEN /\ SetPool(RegisterBrowser(r.P, b, now))
               /\ nBrowsers' = b
               /\ handed' = [handed EXCEPT ![b] = @ + 1]
               /\ locking' = [locking EXCEPT ![w].pc = "exit", ![w].outcome = "returned"]
          ELSE /\ SetPool(r.P)
               /\ locking' = [locking EXCEPT ![w].pc = "exit", ![w].outcome = "raised"]
               /\ UNCHANGED <<nBrowsers, handed>>
    /\ UNCHANGED <<threads, probe, batch, perfVars, browser_lock, pc, call, nCalls,
                   retry_manager, histories, now, ticks, returned>>

\* The body of restart_browser_if_needed, lines 294-318
BodyRestart(w, memory_high) ==
    /\ locking[w].pc = "body"
    /\ locking[w].op = "restart_browser_if_needed"
    /\ SetPool(restart_browser_if_needed(PoolState, now, memory_high))
    /\ locking' = [locking EXCEPT ![w].pc = "exit", ![w].outcome = "returned"]
    /\ UNCHANGED <<threads, probe, batch, perfVars, browser_lock, pc, call, nCalls,
                   retry_manager, histories, nBrowsers, handed, now, ticks, returned>>

\* The body of cleanup_resources, lines 465-481
BodyCleanup(w) ==
    /\ locking[w].pc = "body"
    /\ locking[w].op = "cleanup_resources"
    /\ SetPool(cleanup_resources(PoolState))
    /\ locking' = [locking EXCEPT ![w].pc = "exit", ![w].outcome = "returned"]
    /\ UNCHANGED <<threads, probe, batch, perfVars, browser_lock, pc, call, nCalls,
                   retry_manager, histories, nBrowsers, handed, now, ticks, returned>>

\* The with block is left and the method returns or raises.
LockExit(w) ==
    /\ locking[w].pc = "exit"
    /\ browser_lock' = with_exit(browser_lock, locking[w].outcome)
    /\ locking' = [locking EXCEPT ![w].pc = "idle", ![w].calls = @ + 1]
    /\ UNCHANGED <<progVars, probe, batch, perfVars>>

\* The steps of thread w inside a method it has called.
Proceed(w) ==
    \/ LockEnter(w)
    \/ \E create_ok \in BOOLEAN : BodyAcquire(w, create_ok)
    \/ \E memory_high \in BOOLEAN : BodyRestart(w, memory_high)
    \/ BodyCleanup(w)
    \/ LockExit(w)

NextLock ==
    \/ \E w \in Workers, op \in LockedMethods : LockedCall(w, op)
    \/ \E w \in Workers : Proceed(w)

\* Every thread that can take a step is scheduled in the end, and the
\* construction of an engine and the probes of the scan terminate.
SpecLock == Init /\ [][NextLock]_vars /\ \A w \in Workers : WF_vars(Proceed(w))

\* ---------------------------------------------------------- the batch run
\* process_websites, lines 186-299: the sites are processed chunk by chunk,
\* each chunk by a ThreadPoolExecutor of config.max_workers threads inside a
\* with block; the main thread collects the results as they complete, saves
\* them at intervals, and flushes the rest in its finally block.  A
\* KeyboardInterrupt reaches the main thread at any point of the try block.
MaxSites == 3
Sites == 1..MaxSites
BatchConfigs == [max_workers : {1, 2}, chunk_size : {2, 3}, save_progress_interval : {1, 2}]

\* ThreadPoolExecutor(max_workers = n) served by one thread per site.
executor_threads_per_site(config) == Sites

\* The threads of ThreadPoolExecutor(max_workers=config.max_workers)
executor_threads(config) == 1..config.max_workers

\* ProgressManager.should_save_progress
should_save_progress(config, buffered) == buffered >= config.save_progress_interval

\* websites[i:i + config.chunk_size]
Chunk(b) == { i \in Sites : b.chunk_start <= i /\ i < b.chunk_start + b.config.chunk_size }

WithStatus(b, S) == { i \in Sites : b.status[i] \in S }

\* Sites whose detection has been started.
Attempted(b) == WithStatus(b, {"running", "finished", "collected"})

InitBatch ==
    /\ InitDetector({})
    /\ probe = NoProbe
    /\ \E config \in BatchConfigs :
          batch = [pc |-> "submit", config |-> config, chunk_start |-> 1,
                   status |-> [i \in Sites |-> "pending"],
                   worker |-> [t \in Sites |-> 0],
                   results_buffer |-> <<>>, written |-> <<>>,
                   interrupted |-> FALSE, attempted_before |-> {},
                   started_after |-> {}]

\* line 236: executor.submit(process_site, site) for the next site of the chunk
Submit ==
    /\ batch.pc = "submit"
    /\ LET pending == Chunk(batch) \cap WithStatus(batch, {"pending"})
           i == CHOOSE j \in pending : \A k \in pending : j <= k
       IN /\ pending # {}
          /\ batch' = [batch EXCEPT
                         !.status[i] = "queued",
                         !.pc = IF pending = {i} THEN "collect" ELSE "submit"]
    /\ UNCHANGED <<progVars, probe, perfVars, lockVars>>

\* An idle thread of the executor takes the oldest queued site and calls
\* process_site on it.
WorkerStart(t) ==
    /\ batch.pc \in {"submit", "collect", "shutdown"}
    /\ t \in executor_threads(batch.config)
    /\ batch.worker[t] = 0
    /\ LET queued == WithStatus(batch, {"queued"})
           i == CHOOSE j \in queued : \A k \in queued : j <= k
       IN /\ queued # {}
          /\ batch' = [batch EXCEPT
                         !.status[i] = "running",
                         !.worker[t] = i,
                         !.started_after = IF batch.interrupted THEN @ \cup {i} ELSE @]
    /\ UNCHANGED <<progVars, probe, perfVars, lockVars>>

\* process_site returns on thread t: the future holds its result.
WorkerFinish(t) ==
    /\ batch.pc \in {"submit", "collect", "shutdown"}
    /\ batch.worker[t] # 0
    /\ batch' = [batch EXCEPT !.status[batch.worker[t]] = "finished", !.worker[t] = 0]
    /\ UNCHANGED <<progVars, probe, perfVars, lockVars>>

\* lines 237-252: as_completed yields a finished future and its result is
\* appended to results_buffer; after the last one the with block is left.
CollectResult(i) ==
    /\ batch.pc = "collect"
    /\ i \in Chunk(batch)
    /\ batch.status[i] = "finished"
    /\ batch' = [batch EXCEPT
                   !.status[i] = "collected",
                   !.results_buffer = Append(@, i),
                   !.pc = IF Chunk(batch) \subseteq (WithStatus(batch, {"collected"}) \cup {i})
                          THEN "save" ELSE "collect"]
    /\ UNCHANGED <<progVars, probe, perfVars, lockVars>>

\* lines 259-264 and the step of the chunk loop
SaveProgress ==
    /\ batch.pc = "save"
    /\ LET save == should_save_progress(batch.config, Len(batch.results_buffer))
           next == batch.chunk_start + batch.config.chunk_size
       IN batch' = [batch EXCEPT
                      !.written = IF save THEN @ \o batch.results_buffer ELSE @,
                      !.results_buffer = IF save THEN <<>> ELSE @,
                      !.chunk_start = next,
                      !.pc = IF next > MaxSites THEN "finally" ELSE "submit"]
    /\ UNCHANGED <<progVars, probe, perfVars, lockVars>>

\* KeyboardInterrupt in the main thread: inside the with block the executor's
\* __exit__ runs first (shutdown(wait=True)), then lines 284-285.
Interrupt ==
    /\ batch.pc \in {"submit", "collect", "save"}
    /\ ~batch.interrupted
    /\ batch' = [batch EXCEPT
                   !.interrupted = TRUE,
                   !.attempted_before = Attempted(batch),
                   !.pc = IF batch.pc = "save" THEN "finally" ELSE "shutdown"]
    /\ UNCHANGED <<progVars, probe, perfVars, lockVars>>

\* ThreadPoolExecutor.shutdown(wait=True) returns once every submitted
\* future has run.
ShutdownDone ==
    /\ batch.pc = "shutdown"
    /\ WithStatus(batch, {"queued", "running"}) = {}
    /\ batch' = [batch EXCEPT !.pc = "finally"]
    /\ UNCHANGED <<progVars, probe, perfVars, lockVars>>

\* lines 290-297: the finally block writes what results_buffer holds
Finally ==
    /\ batch.pc = "finally"
    /\ batch' = [batch EXCEPT
                   !.written = @ \o batch.results_buffer,
                   !.pc = "end"]
    /\ UNCHANGED <<progVars, probe, perfVars, lockVars>>

NextBatch ==
    \/ Submit
    \/ \E t \in Sites : WorkerStart(t)
    \/ \E t \in Sites : WorkerFinish(t)
    \/ \E i \in Sites : CollectResult(i)
    \/ SaveProgress
    \/ Interrupt
    \/ ShutdownDone
    \/ Finally

SpecBatch == InitBatch /\ [][NextBatch]_vars

\* C18: the detections in flight never outnumber config.max_workers, and
\* each thread of the executor runs one site at a time: every site in flight
\* is on exactly one thread.
C18_InFlightWithinCap ==
    batch.pc # "none" =>
        LET running == WithStatus(batch, {"running"})
            busy == { t \in Sites : batch.worker[t] # 0 }
        IN /\ Cardinality(running) <= batch.config.max_workers
           /\ Cardinality(busy) <= batch.config.max_workers
           /\ running = { batch.worker[t] : t \in busy }
           /\ \A s, t \in busy : batch.worker[s] = batch.worker[t] => s = t

\* Both threads of a two-thread executor are busy while a third site waits
\* in the queue.
C18_Witness ==
    /\ batch.pc # "none"
    /\ batch.config.max_workers = 2
    /\ Cardinality(WithStatus(batch, {"running"})) = 2
    /\ WithStatus(batch, {"queued"}) # {}

\* C19: once the run is interrupted no detection is started any more, and
\* when the run has ended the output holds a result for every site whose
\* detection had been started before the interruption.
C19_InterruptFlushesAttempted ==
    (batch.pc # "none" /\ batch.interrupted) =>
        /\ batch.started_after = {}
        /\ batch.pc = "end" =>
               \A i \in batch.attempted_before :
                   \E k \in 1..Len(batch.written) : batch.written[k] = i

\* C20: a max_retries override governs only the call it is passed to: a call
\* made without an override, later or at the same time, runs with the
\* max_attempts the detector was constructed with.
C20_OverrideOnlyThatCall ==
    \A w \in Workers :
        (call[w].override = NoOverride /\ call[w].attempt >= 1)
            => call[w].max_attempts = DefaultMaxRetries

\* C21: the retry policy the detector works with (max_attempts,
\* backoff_base, backoff_multiplier, non_retryable_errors) is the retry
\* section of the configuration object it was constructed from.
C21_PolicyFromConfig ==
    (probe.op = "construct" /\ probe.output # <<>>) =>
        LET used == probe.output[1]
            given == probe.input.retry
        IN /\ used.max_attempts = given.max_attempts
           /\ used.backoff_base = given.backoff_base
           /\ used.backoff_multiplier = given.backoff_multiplier
           /\ used.non_retryable_errors = given.non_retryable_errors

\* A pooled entry fails the liveness probe or is at or over a limit.
Unfit(b) ==
    \/ engines[b] # "live"
    \/ browser_usage_count[b] >= browser_restart_threshold
    \/ now - browser_creation_time[b] >= browser_max_age

\* The entries that precede position i in the pool.
Before(i) == { browser_pool[j] : j \in 1..(i - 1) }

\* All of bs have been evicted: out of the pool and their engines quit.
Evicted(bs) ==
    \A b \in bs : b \notin SeqToSet(browser_pool') /\ engines'[b] = "quit"

\* C22: an acquire that returns a handle returns either the first pooled
\* entry that passes the liveness probe and is below the usage and age
\* limits, its usage count raised by one, or, when no pooled entry is fit, a
\* new entry registered with usage count 0; the unfit entries met during the
\* scan are evicted.
C22_AcquireReturnsFirstFit ==
    [][ \A b \in BrowserIds :
          handed'[b] = handed[b] + 1 =>
             \/ \E i \in 1..Len(browser_pool) :
                   /\ browser_pool[i] = b
                   /\ ~Unfit(b)
                   /\ \A a \in Before(i) : Unfit(a)
                   /\ Evicted(Before(i))
                   /\ browser_usage_count'[b] = browser_usage_count[b] + 1
                   /\ b \in SeqToSet(browser_pool')
             \/ /\ b \notin SeqToSet(browser_pool)
                /\ engines[b] = "none"
                /\ \A a \in SeqToSet(browser_pool) : Unfit(a)
                /\ Evicted(SeqToSet(browser_pool))
                /\ browser_usage_count'[b] = 0
                /\ browser_pool' = <<b>>
      ]_vars

\* The first engine aged out or wore out and was evicted, a second one was
\* constructed in its place and has been reused since.
C22_Witness ==
    /\ threads = {}
    /\ nBrowsers = 2
    /\ engines[1] = "quit"
    /\ handed[2] >= 2
    /\ browser_usage_count[2] = handed[2] - 1
    /\ browser_pool = <<2>>

\* C23: within one execute_with_retry call attempt k + 1 starts only after
\* attempt k has failed and the call has slept delay(k) = base * 2^(k-1): the
\* sleeps so far are delay(1) .. delay(attempt - 1), no more invocations
\* have started than attempts, the record of a retried attempt k stores
\* delay(k) and the record of the terminal failed attempt stores 0.
C23_SequentialWithBackoff ==
    \A w \in Workers :
        call[w].attempt >= 1 =>
            LET c == call[w]
                h == histories[c.id]
                delay(k) == backoff_base * Pow(backoff_multiplier, k - 1)
            IN /\ c.invocations <= c.attempt
               /\ c.invocations >= c.attempt - 1
               /\ c.slept = [k \in 1..(c.attempt - 1) |-> delay(k)]
               /\ Len(h.attempts) <= c.attempt
               /\ Len(h.attempts) >= c.attempt - 1
               /\ \A i \in 1..Len(h.attempts) :
                     /\ h.attempts[i].attempt_number = i
                     /\ h.attempts[i].delay_before_attempt =
                            IF i < c.attempt THEN delay(i) ELSE 0

\* A call failed three times: it slept 1 s and 2 s, and no wait followed the
\* third attempt.
C23_Witness ==
    \E w \in Workers :
        /\ pc[w] = "done"
        /\ call[w].invocations = 3
        /\ call[w].slept = <<1, 2>>
        /\ Len(histories[call[w].id].attempts) = 3
        /\ histories[call[w].id].attempts[3].delay_before_attempt = 0

\* ------------------------------------------------------------ the mutexes
\* The collections the step a thread takes from position p writes to.
PoolCollections == {"_browser_pool", "_browser_usage_count", "_browser_creation_time"}
Mutates(p) ==
    CASE p = "acquire" -> PoolCollections
      [] p = "post" -> PoolCollections
      [] p = "execute" -> {"retry_histories"}
      [] p = "override_del" -> {"retry_histories"}
      [] OTHER -> {}

\* The mutexes a thread holds during that step: get_optimized_browser and
\* restart_browser_if_needed run under "with self._browser_lock"; no other
\* step of a detect call takes a lock.
Holds(p) == IF p \in {"acquire", "post"} THEN {"_browser_lock"} ELSE {}

\* What a mutex guards.
Guards(mutex, collection) == mutex = "_browser_lock" /\ collection \in PoolCollections

\* C24: every write to a collection shared between the workers (the pool
\* list, its usage-count and creation-time maps, the retry-history map) is
\* made while the thread holds a mutex for that collection.
C24_MutationsUnderMutex ==
    \A w \in threads :
        \A collection \in Mutates(pc[w]) :
            \E mutex \in Holds(pc[w]) : Guards(mutex, collection)

\* Thread w is inside execute_with_retry.
Executing(w) == pc[w] \in {"fetch", "acquire", "render"}

\* C25: two execute_with_retry calls that run at the same time for distinct
\* input rows use distinct retry-history keys, and the map holds each
\* call's own RetryHistory under its key.
C25_DistinctHistoryKeys ==
    \A v, w \in threads :
        (/\ v # w
         /\ Executing(v) /\ Executing(w)
         /\ call[v].original_url # call[w].original_url)
        => /\ call[v].url # call[w].url
           /\ retry_manager.retry_histories[call[v].url] = call[v].id
           /\ retry_manager.retry_histories[call[w].url] = call[w].id

\* ------------------------------------------------ restart and cleanup of the pool
\* The restart pass that has just returned, and the pool it found.
Restarted == probe.op = "restart"
PoolBefore == probe.input.before
Pooled == SeqToSet(browser_pool)
PooledBefore == SeqToSet(PoolBefore.pool)

\* "overused or aged" for an entry the call found in the pool
WornBefore(b) ==
    \/ PoolBefore.usage[b] >= browser_restart_threshold
    \/ probe.input.now - PoolBefore.ctime[b] >= browser_max_age

\* C26: after a restart pass that found memory over the threshold, no pooled
\* entry has a usage count at or over the restart threshold or an age at or
\* over the maximum age, the pool holds at most _max_workers entries, and no
\* entry that was neither overused nor aged has been evicted while an entry
\* created before it is still pooled.
C26_RestartUnderMemoryPressure ==
    (Restarted /\ probe.input.memory_high) =>
        /\ \A b \in Pooled :
              /\ browser_usage_count[b] < browser_restart_threshold
              /\ now - browser_creation_time[b] < browser_max_age
        /\ Len(browser_pool) <= _max_workers
        /\ \A y \in PooledBefore \ Pooled :
              ~WornBefore(y) =>
                  ~\E o \in Pooled : PoolBefore.ctime[o] < PoolBefore.ctime[y]

\* A restart pass under memory pressure has evicted an aged entry.
C26_Witness ==
    /\ Restarted
    /\ probe.input.memory_high
    /\ \E b \in PooledBefore \ Pooled :
          /\ PoolBefore.usage[b] < browser_restart_threshold
          /\ probe.input.now - PoolBefore.ctime[b] >= browser_max_age

\* C27: a restart pass that found memory at or below the threshold evicts
\* nothing: the pool and both tracking maps are as the call found them.
C27_NoEvictionWithoutPressure ==
    (Restarted /\ ~probe.input.memory_high) =>
        /\ browser_pool = PoolBefore.pool
        /\ browser_usage_count = PoolBefore.usage
        /\ browser_creation_time = PoolBefore.ctime

\* C28: after cleanup_resources the pool and both tracking maps are empty
\* and every entry the call found in the pool has been told to quit, also
\* the entries whose engine was already dead.
C28_CleanupEmptiesPool ==
    probe.op = "cleanup" =>
        /\ browser_pool = <<>>
        /\ \A b \in BrowserIds :
              /\ browser_usage_count[b] = Absent
              /\ browser_creation_time[b] = Absent
        /\ \A b \in PooledBefore : engines[b] = "quit"

\* cleanup_resources has run on a pool that held a dead engine.
C28_Witness ==
    /\ probe.op = "cleanup"
    /\ \E b \in PooledBefore : PoolBefore.engines[b] = "dead"

\* ------------------------------------------- failure to construct an engine
\* The last failure of the call of w was the construction of a new engine.
CreateFailed(w) ==
    \E cause \in CreateCauses : call[w].last_exception = BrowserCreateErrorFrom(cause)

\* C29: when the construction of a new engine fails during the acquire of an
\* attempt, the pool and both tracking maps hold no entry for an engine that
\* was not constructed, the attempt is recorded with category BrowserError,
\* and the call ends on that failure only when its attempts are used up.
C29_CreateFailureIsBrowserError ==
    \A w \in Workers :
        (CreateFailed(w) /\ pc[w] \in {"fetch", "except"}) =>
            LET c == call[w]
                h == histories[c.id]
            IN /\ \A b \in BrowserIds :
                     engines[b] = "none" =>
                        /\ b \notin SeqToSet(browser_pool)
                        /\ browser_usage_count[b] = Absent
                        /\ browser_creation_time[b] = Absent
               /\ h.attempts # <<>>
               /\ h.attempts[Len(h.attempts)].error_category = "BrowserError"
               /\ pc[w] = "except" => c.attempt >= c.max_attempts

\* ------------------------------------------------------ the weighted score
\* The sum of the weights of the signals in hundredths, capped at 100.
WeightSum(sig) ==
    LET dynamic_detected == _analyze_dynamic_content(sig.changed, sig.mutation_count)
        framework == IF sig.frameworks = <<>> THEN 0
                     ELSE IF AnyModern(sig.frameworks) THEN 50 ELSE 40
        size == IF sig.content_size_difference > 2000 THEN 30
                ELSE IF sig.content_size_difference > 1000 THEN 20
                ELSE IF sig.content_size_difference > 500 THEN 10 ELSE 0
        dynamic == IF dynamic_detected THEN 20 ELSE 0
        mutations == IF sig.mutation_count > 20 THEN 20
                     ELSE IF sig.mutation_count > 10 THEN 10
                     ELSE IF sig.mutation_count > 5 THEN 5 ELSE 0
        indicators == IF sig.framework_indicators # <<>> THEN 10 ELSE 0
    IN Min(framework + size + dynamic + mutations + indicators, 100)

\* C30: the weighted score is the sum, capped at 1.0, of 0.4 for any
\* framework and 0.1 more for a modern one, one of 0.3/0.2/0.1 for a size
\* difference over 2000/1000/500, 0.2 for dynamic content, one of
\* 0.2/0.1/0.05 for more than 20/10/5 mutations and 0.1 for framework
\* indicators; a size difference over 2000 with no other signal scores 0.3
\* and is Server-Side Rendered.
C30_ScoreIsCappedSum ==
    Classified =>
        LET sig == probe.input
        IN /\ ScoreOf(sig) = Float(WeightSum(sig))
           /\ ( /\ sig.frameworks = <<>>
                /\ sig.content_size_difference > 2000
                /\ ~sig.changed
                /\ sig.mutation_count = 0
                /\ sig.framework_indicators = <<>> )
              => ( /\ ScoreOf(sig) = Float(30)
                   /\ probe.output[1] = "Server-Side Rendered" )

\* ----------------------------------------- the flag of the content comparison
\* C31: when the rendered document has more than 10 additional content
\* elements or more than 2 additional script tags, the dynamic-content flag
\* is set and the score is the one computed with the flag set, whatever the
\* runtime probe (changed content, mutation count) reports.
C31_ComparisonFlagCounts ==
    (Classified /\ (probe.input.element_increase > 10 \/ probe.input.script_increase > 2))
        => /\ ClassifierMetrics(probe.input).dynamic_content_detected
           /\ csr_score(probe.input) =
                  _calculate_weighted_score(ClassifierMetrics(probe.input),
                                            probe.input.frameworks, TRUE,
                                            probe.input.mutation_count)

\* ------------------------------------------- exceptions while classifying
Verdicts == {"Client-Side Rendered", "Server-Side Rendered"}
ClassifyReturned == probe.op = "classify" /\ probe.output # <<>>

\* C32 as stated: _classify_rendering_type always returns a verdict, and when
\* any step of the signal extraction or of the scoring raised, the verdict is
\* Server-Side Rendered.
C32_AnyFaultGivesServerRendered ==
    ClassifyReturned =>
        /\ probe.output[1] \in Verdicts
        /\ probe.input.fault # "none" => probe.output[1] = "Server-Side Rendered"

\* C32 as amended: _classify_rendering_type always returns a verdict; an
\* exception that reaches its own handler gives Server-Side Rendered; a
\* failure of the parse in _compare_content or of the scripts of
\* _analyze_dynamic_content is swallowed there and the page is classified
\* on the signals that are left, so that a modern framework with a size
\* difference over 1000 is still Client-Side Rendered.
C32_ClassifierAlwaysReturns ==
    ClassifyReturned =>
        /\ probe.output[1] \in Verdicts
        /\ probe.input.fault = "content" => probe.output[1] = "Server-Side Rendered"
        /\ ( /\ probe.input.fault \in {"parse", "script"}
             /\ AnyModern(probe.input.frameworks)
             /\ probe.input.content_size_difference > 1000 )
           => probe.output[1] = "Client-Side Rendered"

\* A page whose rendered source could not be measured, with a modern
\* framework and every other signal present, has been classified.
C32_Witness ==
    /\ ClassifyReturned
    /\ probe.input.fault = "content"
    /\ AnyModern(probe.input.frameworks)
    /\ probe.input.content_size_difference > 2000
    /\ probe.output = <<"Server-Side Rendered">>

\* ------------------------------------------------------ the size of the pool
\* C33: the pool never holds more than one engine, and the engine it holds
\* is the one constructed last: a new engine is constructed only by a scan
\* that has emptied the pool.
C33_AtMostOnePooled ==
    /\ Len(browser_pool) <= 1
    /\ \A i \in 1..Len(browser_pool) : browser_pool[i] = nBrowsers

\* A second engine has been constructed and handed out again, and it is
\* alone in the pool.
C33_Witness ==
    /\ nBrowsers = 2
    /\ browser_pool = <<2>>
    /\ handed[1] >= 1
    /\ handed[2] >= 2

\* ------------------------------------------------ modern frameworks decide
\* C34: when the detected frameworks include React, Vue, Next.js or Nuxt.js
\* and no exception reaches the handler of the classifier, the verdict is
\* Client-Side Rendered whatever the size difference, the dynamic-content
\* flag and the mutation count are; Server-Side Rendered is returned only
\* when no modern framework was detected.
C34_ModernFrameworkIsClientRendered ==
    (ClassifyReturned /\ probe.input.fault # "content") =>
        /\ (\E i \in 1..Len(probe.input.frameworks) :
                probe.input.frameworks[i] \in {"React", "Vue", "Next.js", "Nuxt.js"})
              => probe.output[1] = "Client-Side Rendered"
        /\ probe.output[1] = "Server-Side Rendered"
              => \A i \in 1..Len(probe.input.frameworks) :
                    probe.input.frameworks[i] \notin {"React", "Vue", "Next.js", "Nuxt.js"}

\* jQuery and React were detected on a page with no other signal, and the
\* page was classified Client-Side Rendered.
C34_Witness ==
    /\ ClassifyReturned
    /\ probe.input.fault = "none"
    /\ probe.input.frameworks = <<"jQuery", "React">>
    /\ probe.input.content_size_difference = 0
    /\ ~probe.input.changed
    /\ probe.input.mutation_count = 0
    /\ probe.input.framework_indicators = <<>>
    /\ probe.output = <<"Client-Side Rendered">>

\* ---------------------------------------------------- no increment is lost
\* The detect calls that have returned, over all threads.
CallsReturned == updating["w1"].calls + updating["w2"].calls

\* C35: once the detect calls made so far have all returned,
\* total_requests is the number of those calls and successful_requests +
\* failed_requests = total_requests, also when the calls ran concurrently.
C35_NoIncrementLost ==
    (\A w \in Workers : updating[w].pc = "idle") =>
        /\ performance_metrics.total_requests = CallsReturned
        /\ performance_metrics.successful_requests
              + performance_metrics.failed_requests
              = performance_metrics.total_requests

\* ------------------------------------------------------------- no deadlock
\* The thread is inside a with block of the lock.
InWith(w) == locking[w].pc \in {"body", "exit"}

\* C36: _browser_lock is held exactly by the thread that is inside the with
\* block of get_optimized_browser, restart_browser_if_needed or
\* cleanup_resources: it is released on every way out, also when the
\* construction of an engine raises, and never taken by a thread that holds
\* it; and every call of get_optimized_browser that waits for the lock
\* returns an engine or raises in the end.
C36_LockReleasedNoDeadlock ==
    /\ [](\A w \in Workers : (browser_lock = w) <=> InWith(w))
    /\ [](browser_lock = Unlocked <=> \A w \in Workers : ~InWith(w))
    /\ \A w \in Workers :
          (locking[w].pc = "wait" /\ locking[w].op = "get_optimized_browser")
              ~> (locking[w].pc = "idle" /\ locking[w].outcome \in {"returned", "raised"})

\* A call of get_optimized_browser whose engine construction raised has
\* returned, and the other thread is inside the lock.
C36_Witness ==
    /\ locking["w1"].pc = "idle"
    /\ locking["w1"].op = "get_optimized_browser"
    /\ locking["w1"].outcome = "raised"
    /\ browser_lock = "w2"

\* ------------------------------------------------- accepted retry settings
\* C37: for every max_attempts that validate_config accepts, a call of
\* execute_with_retry that has ended has invoked the operation at least
\* once, and the error it raises is an error the operation raised.
C37_InvokedAtLeastOnce ==
    \A w \in Workers :
        /\ pc[w] \in {"except", "post", "done", "raised"} /\ call[w].url # <<>>
              => call[w].invocations >= 1
        /\ pc[w] = "except"
              => /\ call[w].last_exception # NoError
                 /\ call[w].exc = call[w].last_exception

\* ------------------------------------------------ the non-retryable phrases
\* C38: an error whose message is a phrase of non_retryable_patterns is put
\* by categorize_error into the category the phrase is listed under: the
\* DNS phrases give DNSError and the SSL phrases give SSLError.
C38_ListedPhraseKeepsCategory ==
    (probe.op = "pattern" /\ probe.output # <<>>) =>
        probe.output[1] = probe.input.category

\* ------------------------------------------------ the pool's tracking maps
\* C39: between calls of the pool (every call runs under _browser_lock) the
\* keys of _browser_usage_count and of _browser_creation_time are exactly
\* the browsers in _browser_pool, and the usage count of every pooled
\* browser lies between 0 and _browser_restart_threshold.
C39_TrackingMatchesPool ==
    \A b \in BrowserIds :
        /\ (\E i \in 1..Len(browser_pool) : browser_pool[i] = b)
              <=> browser_usage_count[b] # Absent
        /\ (\E i \in 1..Len(browser_pool) : browser_pool[i] = b)
              <=> browser_creation_time[b] # Absent
        /\ (\E i \in 1..Len(browser_pool) : browser_pool[i] = b)
              => /\ browser_usage_count[b] >= 0
                 /\ browser_usage_count[b] <= browser_restart_threshold

\* A browser has been removed and its keys are gone, and the browser pooled
\* after it has been handed out until its count stands at the threshold.
C39_Witness ==
    /\ nBrowsers >= 2
    /\ browser_pool = <<nBrowsers>>
    /\ browser_usage_count[nBrowsers] = browser_restart_threshold
    /\ browser_usage_count[1] = Absent
    /\ browser_creation_time[1] = Absent

====
